---- MODULE Spec2Model ----
(***************************************************************************)
(* A model of the essay converter of plant-humanities/chirpy                *)
(* (utils/convert.py).  Text is a sequence of one-character strings; the    *)
(* regular expressions and the shlex tokenizer of the source are written    *)
(* out as scanners over such sequences.                                     *)
(***************************************************************************)
EXTENDS Naturals, Integers, Sequences, FiniteSets, TLC

VARIABLES
    pc,                        \* position of the running call
    arg,                       \* the text handed to the function under study
    ret,                       \* what the call returned
    ret2,                      \* what a second call on ret returned
    walk,                      \* what os.walk(src) yields, in order
    pos,                       \* the entry the loop of convert is at
    max,                       \* convert's max argument (0 models None)
    ctr,                       \* convert's ctr
    written,                   \* the destination files written so far
    errors,                    \* "Error converting params" lines printed
    unrecognized_image_attrs,  \* module-level registry (image domain)
    unrecognized_map_attrs,    \* module-level registry (map domain)
    nconv                      \* directive conversions made so far in the run

vars == <<pc, arg, ret, ret2, walk, pos, max, ctr, written, errors,
          unrecognized_image_attrs, unrecognized_map_attrs, nconv>>

(***************************************************************************)
(* Characters.                                                             *)
(***************************************************************************)
\* The backtick character (written as a name: it cannot stand in a literal).
BT == "BACKTICK"
DQ == "\""
SQ == "'"
BSL == "\\"
NL == "\n"

\* Python's None, and str(None).
None == <<"None">>
NoneStr == <<"N", "o", "n", "e">>

\* \s of the re module, restricted to the characters a text can hold here.
ReSpace == {" ", "\t", "\n", "\r", "\f"}
\* shlex.whitespace
ShlexWhitespace == {" ", "\t", "\r", "\n"}
\* \w of the re module (ASCII part).
WordChars ==
    {"a","b","c","d","e","f","g","h","i","j","k","l","m","n","o","p","q","r",
     "s","t","u","v","w","x","y","z",
     "A","B","C","D","E","F","G","H","I","J","K","L","M","N","O","P","Q","R",
     "S","T","U","V","W","X","Y","Z",
     "0","1","2","3","4","5","6","7","8","9","_"}

\* s[i:] and s[i:j] on 1-based positions (j exclusive).
From(s, i) == SubSeq(s, i, Len(s))
Slice(s, i, j) == SubSeq(s, i, j - 1)

\* s starts with p at position i
StartsAt(s, i, p) ==
    /\ i + Len(p) - 1 <= Len(s)
    /\ \A k \in 1..Len(p) : s[i + k - 1] = p[k]

Min(S) == CHOOSE x \in S : \A y \in S : x <= y
Max(S) == CHOOSE x \in S : \A y \in S : x >= y

\* first position >= i whose character is not in set cs (i if i is past the
\* end, Len(s)+1 if there is none)
SkipSet(s, i, cs) ==
    LET stop == {j \in i..Len(s) : s[j] \notin cs} IN
    IF i > Len(s) THEN i ELSE IF stop = {} THEN Len(s) + 1 ELSE Min(stop)

\* first position >= i whose character is in set cs (i if i is past the
\* end, Len(s)+1 if there is none)
FindSet(s, i, cs) ==
    LET hit == {j \in i..Len(s) : s[j] \in cs} IN
    IF i > Len(s) THEN i ELSE IF hit = {} THEN Len(s) + 1 ELSE Min(hit)

\* The element of a one-element set.  The({e(x) : x \in {v}}) is e with x
\* bound to the value of v: the model checker computes v once, where a LET
\* definition is computed again at each use.
The(S) == CHOOSE x \in S : TRUE

\* the least element of a set of positions, 0 if it is empty
First(hit) == IF hit = {} THEN 0 ELSE Min(hit)

\* str.strip() with the given character set
Strip(s, cs) ==
    LET keep == {j \in 1..Len(s) : s[j] \notin cs} IN
    IF keep = {} THEN <<>> ELSE SubSeq(s, Min(keep), Max(keep))

\* position of the first occurrence of character c in s, 0 if none
IndexOf(s, c, i) ==
    LET hit == {j \in i..Len(s) : s[j] = c} IN IF hit = {} THEN 0 ELSE Min(hit)

\* sep.join(ss)
RECURSIVE Join(_, _)
Join(ss, sep) ==
    IF ss = <<>> THEN <<>>
    ELSE IF Len(ss) = 1 THEN ss[1]
    ELSE ss[1] \o sep \o Join(Tail(ss), sep)

(***************************************************************************)
(* Dictionaries: Python dicts keep insertion order, so a dict is a sequence *)
(* of <<key, value>> pairs with distinct keys.                              *)
(***************************************************************************)
Keys(d) == {d[i][1] : i \in 1..Len(d)}
HasKey(d, k) == \E i \in 1..Len(d) : d[i][1] = k
Get(d, k) == d[CHOOSE i \in 1..Len(d) : d[i][1] = k][2]
\* d[k] = v
DictSet(d, k, v) ==
    IF HasKey(d, k)
    THEN [i \in 1..Len(d) |-> IF d[i][1] = k THEN <<k, v>> ELSE d[i]]
    ELSE Append(d, <<k, v>>)
\* bool(v) of a value that is None or a str
Truthy(v) == v # None /\ v # <<>>
\* the text an f-string puts for v
Str(v) == IF v = None THEN NoneStr ELSE v

(***************************************************************************)
(* to_dict (convert.py 98-131)                                             *)
(***************************************************************************)
\* shlex.shlex(s, posix=True), whitespace_split = True, commenters = '':
\* the lexer's state machine (shlex.read_token), run over the whole text.
\* state: " " between tokens, "a" in a word, a quote character inside
\* quotes, the escape character after a backslash.  A run of characters
\* that the lexer only appends to the token is consumed in one step.
ShlexSpecial == ShlexWhitespace \cup {DQ, SQ, BSL}
ShlexQuoteEnd(q) == IF q = DQ THEN {DQ, BSL} ELSE {q}
RECURSIVE shlex_tokens(_, _, _, _, _, _, _)
shlex_tokens(s, i, state, escapedstate, token, quoted, tokens) ==
    IF i > Len(s)
    THEN IF state \in {DQ, SQ, BSL}
         THEN [err |-> TRUE, tokens |-> tokens]     \* ValueError
         ELSE [err |-> FALSE,
               tokens |-> IF state = "a" /\ (token # <<>> \/ quoted)
                          THEN Append(tokens, token) ELSE tokens]
    ELSE LET c == s[i] IN
      CASE state = " " ->
             IF c \in ShlexWhitespace
             THEN shlex_tokens(s, i + 1, " ", escapedstate, <<>>, FALSE, tokens)
             ELSE IF c = BSL
             THEN shlex_tokens(s, i + 1, BSL, "a", <<>>, FALSE, tokens)
             ELSE IF c \in {DQ, SQ}
             THEN shlex_tokens(s, i + 1, c, escapedstate, <<>>, TRUE, tokens)
             ELSE shlex_tokens(s, FindSet(s, i, ShlexSpecial), "a", escapedstate,
                               Slice(s, i, FindSet(s, i, ShlexSpecial)), FALSE, tokens)
        [] state \in {DQ, SQ} ->
             IF c = state
             THEN shlex_tokens(s, i + 1, "a", escapedstate, token, TRUE, tokens)
             ELSE IF c = BSL /\ state = DQ
             THEN shlex_tokens(s, i + 1, BSL, state, token, TRUE, tokens)
             ELSE shlex_tokens(s, FindSet(s, i, ShlexQuoteEnd(state)), state, escapedstate,
                               token \o Slice(s, i, FindSet(s, i, ShlexQuoteEnd(state))),
                               TRUE, tokens)
        [] state = BSL ->
             shlex_tokens(s, i + 1, escapedstate, escapedstate,
                          (IF escapedstate \in {DQ, SQ} /\ c # BSL /\ c # escapedstate
                           THEN Append(token, BSL) ELSE token) \o <<c>>,
                          quoted, tokens)
        [] OTHER ->   \* state = "a"
             IF c \in ShlexWhitespace
             THEN IF token # <<>> \/ quoted
                  THEN shlex_tokens(s, i + 1, " ", escapedstate, <<>>, FALSE, Append(tokens, token))
                  ELSE shlex_tokens(s, i + 1, " ", escapedstate, token, quoted, tokens)
             ELSE IF c \in {DQ, SQ}
             THEN shlex_tokens(s, i + 1, c, escapedstate, token, TRUE, tokens)
             ELSE IF c = BSL
             THEN shlex_tokens(s, i + 1, BSL, "a", token, quoted, tokens)
             ELSE shlex_tokens(s, FindSet(s, i, ShlexSpecial), "a", escapedstate,
                               token \o Slice(s, i, FindSet(s, i, ShlexSpecial)),
                               quoted, tokens)

\* list(lexer)
shlex_list(s) == shlex_tokens(s, 1, " ", " ", <<>>, FALSE, <<>>)

\* a variant of str_split that does not split: the whole text as one token
str_split_whole(s, i, tokens) == IF s = <<>> THEN tokens ELSE Append(tokens, s)

\* s.split(): the maximal runs of non-whitespace characters
RECURSIVE str_split(_, _, _)
str_split(s, i, tokens) ==
    The({IF b > Len(s) THEN tokens
         ELSE The({The({str_split(s, e, t) : t \in {Append(tokens, Slice(s, b, e))}})
                   : e \in {FindSet(s, b, ReSpace)}})
         : b \in {SkipSet(s, i, ReSpace)}})

\* value.strip('"\'')
strip_quotes(v) == Strip(v, {DQ, SQ})

\* lines 124-129: one token into the dict
add_token(attrs, token) ==
    LET eq == IndexOf(token, "=", 1) IN
    IF eq > 0
    THEN DictSet(attrs, Slice(token, 1, eq), strip_quotes(From(token, eq + 1)))
    ELSE DictSet(attrs, token, None)

RECURSIVE tokens_to_attrs(_, _)
tokens_to_attrs(tokens, attrs) ==
    IF tokens = <<>> THEN attrs
    ELSE The({tokens_to_attrs(Tail(tokens), a) : a \in {add_token(attrs, Head(tokens))}})

\* to_dict(s) with warn=True: the dict returned, the number of diagnostics
\* ("WARNING: attribute parse error" blocks) printed, and whether an
\* exception left the function.
to_dict_call(s) ==
    The({The({The({
        [attrs  |-> tokens_to_attrs(tokens, <<>>),
         diags  |-> IF lex.err THEN 1 ELSE 0,
         raised |-> FALSE]
        : tokens \in {IF lex.err THEN str_split(t, 1, <<>>) ELSE lex.tokens}})
        : lex \in {shlex_list(t)}})
        : t \in {s}})

to_dict(s) == to_dict_call(s).attrs

(***************************************************************************)
(* extract_header_tag (convert.py 292-333)                                 *)
(***************************************************************************)
KwHeader == <<BT, "h", "e", "a", "d", "e", "r">>

\* HEADER_TAG_RE matched at position i: the position of the closing
\* backtick, 0 if there is no match at i.   `header\b([^`]*)`
header_match(s, i) ==
    LET a == i + Len(KwHeader) IN
    IF /\ StartsAt(s, i, KwHeader)
       /\ a <= Len(s)
       /\ s[a] \notin WordChars
    THEN LET e == FindSet(s, a, {BT}) IN IF e <= Len(s) THEN e ELSE 0
    ELSE 0

\* a variant of header_search that takes the rightmost match
header_search_last(s, i) ==
    IF {j \in i..Len(s) : header_match(s, j) > 0} = {} THEN 0
    ELSE Max({j \in i..Len(s) : header_match(s, j) > 0})

\* HEADER_TAG_RE.search: the start of the leftmost match, 0 if none
header_search(s, i) == First({j \in i..Len(s) : header_match(s, j) > 0})

\* ATTR_RE matched at position p: [ok, key, value, end] (end: the position
\* after the match).   (\w+)=(?:"([^"]*)"|'([^']*)'|([^\s]+))
attr_match(s, p) ==
    LET w == SkipSet(s, p, WordChars)
        v == w + 1
        no == [ok |-> FALSE, key |-> <<>>, value |-> <<>>, end |-> p]
    IN
    IF ~(w > p /\ w <= Len(s) /\ s[w] = "=") THEN no
    ELSE LET q == IF v <= Len(s) /\ s[v] \in {DQ, SQ}
                  THEN FindSet(s, v + 1, {s[v]}) ELSE Len(s) + 1
             e == FindSet(s, v, ReSpace)
         IN
         IF q <= Len(s)
         THEN [ok |-> TRUE, key |-> Slice(s, p, w), value |-> Slice(s, v + 1, q), end |-> q + 1]
         ELSE IF e > v
         THEN [ok |-> TRUE, key |-> Slice(s, p, w), value |-> Slice(s, v, e), end |-> e]
         ELSE no

\* lines 326-328: ATTR_RE.findall(attrs_text) folded into a dict
attr_match_end(s, p) == IF attr_match(s, p).ok THEN attr_match(s, p).end ELSE 0
RECURSIVE header_attrs(_, _, _)
header_attrs(s, p, attrs) ==
    The({IF j = 0 THEN attrs
         ELSE The({header_attrs(s, m.end, DictSet(attrs, m.key, m.value))
                   : m \in {attr_match(s, j)}})
         : j \in {First({k \in p..Len(s) : attr_match_end(s, k) > 0})}})

\* extract_header_tag(md_text): (attrs, new_text)
header_tag_result(md_text) ==
    The({IF b = 0 THEN [attrs |-> <<>>, text |-> md_text]
         ELSE The({[attrs |-> The({header_attrs(attrs_text, 1, <<>>)
                                   : attrs_text \in {Slice(md_text, b + Len(KwHeader), e)}}),
                    text  |-> Slice(md_text, 1, b) \o From(md_text, e + 1)]
                   : e \in {header_match(md_text, b)}})
         : b \in {header_search(md_text, 1)}})
extract_header_tag(md_text) == The({header_tag_result(t) : t \in {md_text}})

(***************************************************************************)
(* clean (convert.py 335-358)                                              *)
(***************************************************************************)
LineStart(s, i) == i = 1 \/ s[i - 1] = NL
SpaceTab == {" ", "\t"}
KwWrap == <<".", "w", "r", "a", "p">>

\* line 353 matched at i: the position after the match, 0 if no match.
\*   (?m)^[ \t]*\{\:\s*\.wrap\s*\}[ \t]*\n?
wrap_match(s, i) ==
    LET a == SkipSet(s, i, SpaceTab)
        b == SkipSet(s, a + 2, ReSpace)
        c == SkipSet(s, b + Len(KwWrap), ReSpace)
        d == SkipSet(s, c + 1, SpaceTab)
    IN
    IF /\ LineStart(s, i)
       /\ StartsAt(s, a, <<"{", ":">>)
       /\ StartsAt(s, b, KwWrap)
       /\ c <= Len(s) /\ s[c] = "}"
    THEN IF d <= Len(s) /\ s[d] = NL THEN d + 1 ELSE d
    ELSE 0

\* at most n characters of set cs from position i on: the position after
SkipUpTo(s, i, cs, n) ==
    LET e == SkipSet(s, i, cs) IN IF e - i > n THEN i + n ELSE e

\* the longest heading marker: #{1,6}
MaxHashes == 6

\* line 354 matched at i.   (?m)^\^[ \t]*#{1,6}[ \t]*\n?
stray_match(s, i) ==
    LET a == SkipSet(s, i + 1, SpaceTab)
        h == SkipUpTo(s, a, {"#"}, MaxHashes)
        d == SkipSet(s, h, SpaceTab)
    IN
    IF LineStart(s, i) /\ i <= Len(s) /\ s[i] = "^" /\ h > a
    THEN IF d <= Len(s) /\ s[d] = NL THEN d + 1 ELSE d
    ELSE 0

\* the last position in i..j-1 holding a newline, 0 if none
LastNL(s, i, j) ==
    LET hit == {k \in i..(j - 1) : k <= Len(s) /\ s[k] = NL} IN
    IF hit = {} THEN 0 ELSE Max(hit)

\* RE_COLLAPSE_BLANK_LINES matched at i: \n\s*\n+
\* (\s* gives back up to the last newline of the whitespace run)
collapse_match(s, i) ==
    IF i <= Len(s) /\ s[i] = NL
    THEN LET e == SkipSet(s, i + 1, ReSpace)
             l == LastNL(s, i + 1, e)
         IN IF l > 0 THEN l + 1 ELSE 0
    ELSE 0

\* whether \s*\n matches at i
BlankAhead(s, i) == LastNL(s, i, SkipSet(s, i, ReSpace)) > 0

\* RE_ADD_BLANK_AFTER_HEADING with \s+ taking j characters, matched at i
\* after the hashes end at h:  ^(#{1,6}\s+.+)\n(?!\s*\n)
\* the position after the matched newline, 0 if this j does not match.
heading_try(s, h, j) ==
    LET p == h + j
        q == FindSet(s, p, {NL})
    IN
    IF p <= Len(s) /\ s[p] # NL /\ q <= Len(s) /\ ~BlankAhead(s, q + 1)
    THEN q + 1 ELSE 0

\* backtracking of \s+ from the longest run down to one character
heading_back(s, h, j) ==
    LET ok == {k \in 1..j : heading_try(s, h, k) > 0} IN
    IF ok = {} THEN 0 ELSE heading_try(s, h, Max(ok))

heading_match(s, i) ==
    LET h == SkipUpTo(s, i, {"#"}, MaxHashes)
        w == SkipSet(s, h, ReSpace)
    IN
    IF LineStart(s, i) /\ h > i /\ w > h
    THEN heading_back(s, h, w - h)
    ELSE 0

\* RE_EMPTY_HEADINGS matched at i:  ^\s*#{1,6}\s*$
\* ($: the end of the text, or just before a newline)
empty_heading_match(s, i) ==
    LET a == SkipSet(s, i, ReSpace)
        h == SkipUpTo(s, a, {"#"}, MaxHashes)
        e == SkipSet(s, h, ReSpace)
        l == LastNL(s, h, e)
    IN
    IF LineStart(s, i) /\ h > a
    THEN IF e > Len(s) THEN e
         ELSE IF l > 0 THEN l ELSE 0
    ELSE 0

\* re.sub for each of the five expressions: scan left to right, replace
\* each match, continue after it.
RECURSIVE wrap_sub(_, _, _)
wrap_sub(s, i, acc) ==
    The({IF j = 0 THEN acc \o From(s, i)
         ELSE The({wrap_sub(s, e, a) : e \in {wrap_match(s, j)}, a \in {acc \o Slice(s, i, j)}})
         : j \in {First({k \in i..Len(s) : wrap_match(s, k) > 0})}})

RECURSIVE stray_sub(_, _, _)
stray_sub(s, i, acc) ==
    The({IF j = 0 THEN acc \o From(s, i)
         ELSE The({stray_sub(s, e, a) : e \in {stray_match(s, j)}, a \in {acc \o Slice(s, i, j)}})
         : j \in {First({k \in i..Len(s) : stray_match(s, k) > 0})}})

RECURSIVE collapse_sub(_, _, _)
collapse_sub(s, i, acc) ==
    The({IF j = 0 THEN acc \o From(s, i)
         ELSE The({collapse_sub(s, e, a)
                   : e \in {collapse_match(s, j)}, a \in {acc \o Slice(s, i, j) \o <<NL, NL>>}})
         : j \in {First({k \in i..Len(s) : collapse_match(s, k) > 0})}})

RECURSIVE heading_sub(_, _, _)
heading_sub(s, i, acc) ==
    The({IF j = 0 THEN acc \o From(s, i)
         ELSE The({The({heading_sub(s, e, a) : a \in {acc \o Slice(s, i, e) \o <<NL>>}})
                   : e \in {heading_match(s, j)}})
         : j \in {First({k \in i..Len(s) : heading_match(s, k) > 0})}})

RECURSIVE empty_heading_sub(_, _, _)
empty_heading_sub(s, i, acc) ==
    The({IF j = 0 THEN acc \o From(s, i)
         ELSE The({empty_heading_sub(s, e, a) : e \in {empty_heading_match(s, j)}, a \in {acc \o Slice(s, i, j)}})
         : j \in {First({k \in i..Len(s) : empty_heading_match(s, k) > 0})}})

\* clean(text)
clean(text) ==
    The({The({The({The({The({empty_heading_sub(t4, 1, <<>>)
        : t4 \in {heading_sub(t3, 1, <<>>)}})
        : t3 \in {collapse_sub(t2, 1, <<>>)}})
        : t2 \in {stray_sub(t1, 1, <<>>)}})
        : t1 \in {wrap_sub(t0, 1, <<>>)}})
        : t0 \in {text}})

(***************************************************************************)
(* convert_params (convert.py 133-281)                                     *)
(***************************************************************************)
\* the attribute lists of lines 142/154, 172, 189/224, 198, 253 and 271
ImageAttrs ==
    <<<<"i", "d">>,
     <<"s", "r", "c">>,
     <<"m", "a", "n", "i", "f", "e", "s", "t">>,
     <<"s", "e", "q">>,
     <<"c", "a", "p", "t", "i", "o", "n">>,
     <<"a", "t", "t", "r", "i", "b", "u", "t", "i", "o", "n">>,
     <<"d", "e", "s", "c", "r", "i", "p", "t", "i", "o", "n">>,
     <<"l", "a", "b", "e", "l">>,
     <<"l", "i", "c", "e", "n", "s", "e">>,
     <<"s", "o", "u", "r", "c", "e">>,
     <<"c", "o", "v", "e", "r">>,
     <<"r", "e", "g", "i", "o", "n">>,
     <<"r", "o", "t", "a", "t", "i", "o", "n">>,
     <<"a", "s", "p", "e", "c", "t">>>>
ImageCompareAttrs ==
    <<<<"i", "d">>,
     <<"b", "e", "f", "o", "r", "e">>,
     <<"a", "f", "t", "e", "r">>,
     <<"c", "a", "p", "t", "i", "o", "n">>,
     <<"a", "s", "p", "e", "c", "t">>>>
MapAttrs ==
    <<<<"i", "d">>,
     <<"c", "e", "n", "t", "e", "r">>,
     <<"z", "o", "o", "m">>,
     <<"b", "a", "s", "e", "m", "a", "p">>,
     <<"b", "a", "s", "e", "m", "a", "p", "s">>,
     <<"c", "a", "p", "t", "i", "o", "n">>,
     <<"a", "s", "p", "e", "c", "t">>>>
MapLineAttrs ==
    <<<<"u", "r", "l">>,
     <<"l", "a", "y", "e", "r">>>>
IframeAttrs ==
    <<<<"i", "d">>,
     <<"s", "r", "c">>,
     <<"c", "a", "p", "t", "i", "o", "n">>,
     <<"a", "s", "p", "e", "c", "t">>>>
YoutubeAttrs ==
    <<<<"i", "d">>,
     <<"v", "i", "d">>,
     <<"c", "a", "p", "t", "i", "o", "n">>,
     <<"a", "s", "p", "e", "c", "t">>>>

AttrId == <<"i", "d">>
AttrVid == <<"v", "i", "d">>
AttrBasemap == <<"b", "a", "s", "e", "m", "a", "p">>
AttrBasemaps == <<"b", "a", "s", "e", "m", "a", "p", "s">>
AttrMarker == <<"m", "a", "r", "k", "e", "r">>
AttrGeojson == <<"g", "e", "o", "j", "s", "o", "n">>
AttrQid == <<"q", "i", "d">>
AttrUrl == <<"u", "r", "l">>
AttrLayer == <<"l", "a", "y", "e", "r">>

Range(q) == {q[i] : i \in 1..Len(q)}

\* the literal pieces of the include strings
IncludeImage == <<"{", "%", " ", "i", "n", "c", "l", "u", "d", "e", " ", "e", "m", "b", "e", "d", "/", "i", "m", "a", "g", "e", ".", "h", "t", "m", "l", " ">>
IncludeImageCompare == <<"{", "%", " ", "i", "n", "c", "l", "u", "d", "e", " ", "e", "m", "b", "e", "d", "/", "i", "m", "a", "g", "e", "-", "c", "o", "m", "p", "a", "r", "e", ".", "h", "t", "m", "l", " ">>
IncludeMap == <<"{", "%", " ", "i", "n", "c", "l", "u", "d", "e", " ", "e", "m", "b", "e", "d", "/", "m", "a", "p", ".", "h", "t", "m", "l", " ">>
IncludeIframe == <<"{", "%", " ", "i", "n", "c", "l", "u", "d", "e", " ", "e", "m", "b", "e", "d", "/", "i", "f", "r", "a", "m", "e", ".", "h", "t", "m", "l", " ">>
IncludeYoutube == <<"{", "%", " ", "i", "n", "c", "l", "u", "d", "e", " ", "e", "m", "b", "e", "d", "/", "y", "o", "u", "t", "u", "b", "e", ".", "h", "t", "m", "l", " ">>
ClassRight == <<"c", "l", "a", "s", "s", "=", "\"", "r", "i", "g", "h", "t", "\"", " ", "%", "}">>
MarkersName == <<"m", "a", "r", "k", "e", "r", "s">>

\* f'{name}="{value}" '
attr_text(name, value) == name \o <<"=", DQ>> \o Str(value) \o <<DQ, " ">>

\* lines 143-147 (and 190-194, 199-203): count every key of attrs that is
\* not in recognized
RECURSIVE count_unrecognized(_, _, _, _)
count_unrecognized(attrs, i, recognized, registry) ==
    IF i > Len(attrs) THEN registry
    ELSE The({count_unrecognized(attrs, i + 1, recognized, r)
              : r \in {IF attrs[i][1] \in recognized THEN registry
                       ELSE DictSet(registry, attrs[i][1],
                                    (IF HasKey(registry, attrs[i][1])
                                     THEN Get(registry, attrs[i][1]) ELSE 0) + 1)}})

\* lines 150-152 (168-170, 220-222, 249-251, 267-269): 'id="..." ' for
\* every key that starts with '#', in the dict's order
RECURSIVE shorthand_ids(_, _)
shorthand_ids(attrs, i) ==
    IF i > Len(attrs) THEN <<>>
    ELSE LET attr == attrs[i][1] IN
         (IF attr # <<>> /\ attr[1] = "#" THEN attr_text(AttrId, Tail(attr)) ELSE <<>>)
         \o shorthand_ids(attrs, i + 1)

\* lines 154-156: image emits every listed attribute that is present
RECURSIVE image_attr_loop(_, _)
image_attr_loop(attrs, i) ==
    IF i > Len(ImageAttrs) THEN <<>>
    ELSE LET attr == ImageAttrs[i] IN
         (IF HasKey(attrs, attr) THEN attr_text(attr, Get(attrs, attr)) ELSE <<>>)
         \o image_attr_loop(attrs, i + 1)

\* lines 172-174: image-compare emits only the listed attributes whose
\* value is truthy
RECURSIVE image_compare_attr_loop(_, _)
image_compare_attr_loop(attrs, i) ==
    IF i > Len(ImageCompareAttrs) THEN <<>>
    ELSE LET attr == ImageCompareAttrs[i] IN
         (IF HasKey(attrs, attr) /\ Truthy(Get(attrs, attr))
          THEN attr_text(attr, Get(attrs, attr)) ELSE <<>>)
         \o image_compare_attr_loop(attrs, i + 1)

\* lines 224-226: map emits every listed attribute that is present, and
\* basemaps under the name basemap
map_attr_name(attr) == IF attr = AttrBasemaps THEN AttrBasemap ELSE attr
RECURSIVE map_attr_loop(_, _)
map_attr_loop(attrs, i) ==
    IF i > Len(MapAttrs) THEN <<>>
    ELSE LET attr == MapAttrs[i] IN
         (IF HasKey(attrs, attr)
          THEN attr_text(map_attr_name(attr), Get(attrs, attr)) ELSE <<>>)
         \o map_attr_loop(attrs, i + 1)

\* a variant of iframe_attr_loop that emits every listed attribute that is
\* present, whatever its value
RECURSIVE iframe_attr_loop_present(_, _)
iframe_attr_loop_present(attrs, i) ==
    IF i > Len(IframeAttrs) THEN <<>>
    ELSE (IF HasKey(attrs, IframeAttrs[i])
          THEN attr_text(IframeAttrs[i], Get(attrs, IframeAttrs[i])) ELSE <<>>)
         \o iframe_attr_loop_present(attrs, i + 1)

\* lines 253-255
RECURSIVE iframe_attr_loop(_, _)
iframe_attr_loop(attrs, i) ==
    IF i > Len(IframeAttrs) THEN <<>>
    ELSE LET attr == IframeAttrs[i] IN
         (IF HasKey(attrs, attr) /\ Truthy(Get(attrs, attr))
          THEN attr_text(attr, Get(attrs, attr)) ELSE <<>>)
         \o iframe_attr_loop(attrs, i + 1)

\* a variant of youtube_attr_name that keeps every name
youtube_attr_name_kept(attr) == attr

\* lines 271-273: vid goes out under the name id
youtube_attr_name(attr) == IF attr # AttrVid THEN attr ELSE AttrId
RECURSIVE youtube_attr_loop(_, _)
youtube_attr_loop(attrs, i) ==
    IF i > Len(YoutubeAttrs) THEN <<>>
    ELSE LET attr == YoutubeAttrs[i] IN
         (IF HasKey(attrs, attr) /\ Truthy(Get(attrs, attr))
          THEN attr_text(youtube_attr_name(attr), Get(attrs, attr)) ELSE <<>>)
         \o youtube_attr_loop(attrs, i + 1)

\* what convert_image_tag writes to the image registry (lines 142-147)
image_registry_update(attrs, registry) ==
    count_unrecognized(attrs, 1, Range(ImageAttrs), registry)

\* convert_image_tag(attrs_str): the tag, and the image registry after it
convert_image_tag(attrs_str, registry) ==
    The({[tag      |-> IncludeImage \o shorthand_ids(attrs, 1)
                       \o image_attr_loop(attrs, 1) \o ClassRight,
          registry |-> image_registry_update(attrs, registry)]
         : attrs \in {to_dict(attrs_str)}})

\* what convert_image_compare_tag, convert_iframe_tag and
\* convert_youtube_tag write to the image registry (lines 165-176, 246-257,
\* 263-276 hold no statement that touches a registry)
image_compare_registry_update(attrs, registry) == registry
iframe_registry_update(attrs, registry) == registry
youtube_registry_update(attrs, registry) == registry

convert_image_compare_tag(attrs_str, registry) ==
    The({[tag      |-> IncludeImageCompare \o shorthand_ids(attrs, 1)
                       \o image_compare_attr_loop(attrs, 1) \o ClassRight,
          registry |-> image_compare_registry_update(attrs, registry)]
         : attrs \in {to_dict(attrs_str)}})

convert_iframe_tag(attrs_str, registry) ==
    The({[tag      |-> IncludeIframe \o shorthand_ids(attrs, 1)
                       \o iframe_attr_loop(attrs, 1) \o ClassRight,
          registry |-> iframe_registry_update(attrs, registry)]
         : attrs \in {to_dict(attrs_str)}})

convert_youtube_tag(attrs_str, registry) ==
    The({[tag      |-> IncludeYoutube \o shorthand_ids(attrs, 1)
                       \o youtube_attr_loop(attrs, 1) \o ClassRight,
          registry |-> youtube_registry_update(attrs, registry)]
         : attrs \in {to_dict(attrs_str)}})

\* block.split('\n')
RECURSIVE split_lines(_, _, _)
split_lines(s, i, lines) ==
    The({IF e > Len(s) THEN Append(lines, From(s, i))
         ELSE The({split_lines(s, e + 1, l) : l \in {Append(lines, Slice(s, i, e))}})
         : e \in {FindSet(s, i, {NL})}})

\* line.strip()[1:-1]
strip_ticks(line) ==
    LET t == Strip(line, ReSpace) IN
    IF Len(t) <= 2 THEN <<>> ELSE SubSeq(t, 2, Len(t) - 1)

\* line 186
RECURSIVE map_block_lines(_, _)
map_block_lines(raw, i) ==
    IF i > Len(raw) THEN <<>>
    ELSE <<strip_ticks(raw[i])>> \o map_block_lines(raw, i + 1)

\* lines 204-217 for one sub-line: the marker and geojson tokens it adds.
\* raised: None += str (TypeError) at line 209 or 216.
map_line_tokens(line_attrs) ==
    LET has_layer == HasKey(line_attrs, AttrLayer)
        suffix == IF has_layer THEN <<"~">> \o Str(Get(line_attrs, AttrLayer)) ELSE <<>>
        marker0 == IF HasKey(line_attrs, AttrQid) THEN Get(line_attrs, AttrQid) ELSE <<>>
        geojson0 == IF HasKey(line_attrs, AttrUrl) THEN Get(line_attrs, AttrUrl) ELSE <<>>
        has_marker == HasKey(line_attrs, AttrMarker)
        has_geojson == HasKey(line_attrs, AttrGeojson)
        marker_raises == has_marker /\ has_layer /\ marker0 = None
        geojson_raises == has_geojson /\ has_layer /\ geojson0 = None
    IN
    [raised   |-> marker_raises \/ geojson_raises,
     markers  |-> IF has_marker /\ ~marker_raises
                  THEN <<IF marker0 = None THEN None ELSE marker0 \o suffix>> ELSE <<>>,
     geojsons |-> IF has_geojson /\ ~marker_raises /\ ~geojson_raises
                  THEN <<IF geojson0 = None THEN None ELSE geojson0 \o suffix>> ELSE <<>>]

\* lines 196-217: the loop over the sub-lines
RECURSIVE map_sub_lines(_, _, _)
map_sub_lines(lines, i, st) ==
    IF i > Len(lines) \/ st.raised THEN st
    ELSE The({The({The({map_sub_lines(lines, i + 1, st2)
              : st2 \in {[registry |-> count_unrecognized(line_attrs, 1, Range(MapLineAttrs),
                                                          st.registry),
                          markers  |-> st.markers \o t.markers,
                          geojsons |-> st.geojsons \o t.geojsons,
                          raised   |-> t.raised]}})
              : t \in {map_line_tokens(line_attrs)}})
              : line_attrs \in {to_dict(lines[i])}})

\* convert_map_block(block): the tag, the map registry after it, and
\* whether a TypeError left the function (lines 209, 216, 228, 230)
convert_map_block(block, registry) ==
    The({The({The({The({
        [registry |-> st.registry,
         raised   |-> st.raised \/ join_raises,
         tag      |-> IF st.raised \/ join_raises THEN <<>>
                      ELSE IncludeMap \o shorthand_ids(tag_attrs, 1) \o map_attr_loop(tag_attrs, 1)
                           \o (IF st.markers # <<>>
                               THEN MarkersName \o <<"=", DQ>> \o Join(st.markers, <<"|">>) \o <<DQ, " ">>
                               ELSE <<>>)
                           \o (IF st.geojsons # <<>>
                               THEN AttrGeojson \o <<"=", DQ>> \o Join(st.geojsons, <<"|">>) \o <<DQ, " ">>
                               ELSE <<>>)
                           \o ClassRight]
        : join_raises \in {(None \in Range(st.markers)) \/ (None \in Range(st.geojsons))}})
        : st \in {map_sub_lines(lines, 2,
                      [registry |-> count_unrecognized(tag_attrs, 1, Range(MapAttrs), registry),
                       markers |-> <<>>, geojsons |-> <<>>, raised |-> FALSE])}})
        : tag_attrs \in {to_dict(lines[1])}})
        : lines \in {map_block_lines(split_lines(block, 1, <<>>), 1)}})

KwImage == <<BT, "i", "m", "a", "g", "e">>
KwImageCompare == <<BT, "i", "m", "a", "g", "e", "-", "c", "o", "m", "p", "a", "r", "e">>
KwMap == <<BT, "m", "a", "p">>
\* re.VERBOSE drops the blank after the dash in the pattern
KwMapLine == <<NL, BT, "-">>
KwIframe == <<BT, "i", "f", "r", "a", "m", "e">>
KwYoutube == <<BT, "y", "o", "u", "t", "u", "b", "e">>

\* line 160 matched at i: [b, e], group 1 is s[b..e-1] and the closing
\* backtick stands at e; e = 0 if there is no match.   `image\s+\b([^`]*)`
image_match(s, i) ==
    LET a == i + Len(KwImage)
        w == SkipSet(s, a, ReSpace)
        e == FindSet(s, w, {BT})
    IN
    IF StartsAt(s, i, KwImage) /\ w > a /\ w <= Len(s) /\ s[w] \in WordChars /\ e <= Len(s)
    THEN [b |-> w, e |-> e] ELSE [b |-> 0, e |-> 0]

image_match_end(s, i) == image_match(s, i).e

\* lines 178, 259, 278 matched at i, for the keyword kw.   `kw\b([^`]*)`
keyword_match(s, i, kw) ==
    LET a == i + Len(kw)
        e == FindSet(s, a, {BT})
    IN
    IF StartsAt(s, i, kw) /\ a <= Len(s) /\ s[a] \notin WordChars /\ e <= Len(s)
    THEN [b |-> a, e |-> e] ELSE [b |-> 0, e |-> 0]

image_compare_match_end(s, i) == keyword_match(s, i, KwImageCompare).e
iframe_match_end(s, i) == keyword_match(s, i, KwIframe).e
youtube_match_end(s, i) == keyword_match(s, i, KwYoutube).e

\* the continuation lines of MAP_BLOCK_RE from position e (a closing
\* backtick) on: the position of the last closing backtick
RECURSIVE map_continuation(_, _)
map_continuation(s, e) ==
    LET f == FindSet(s, e + 1 + Len(KwMapLine), {NL, BT}) IN
    IF StartsAt(s, e + 1, KwMapLine) /\ f <= Len(s) /\ s[f] = BT
    THEN map_continuation(s, f) ELSE e

\* MAP_BLOCK_RE matched at i: the position of the block's last backtick,
\* 0 if there is no match
map_match(s, i) ==
    LET e == FindSet(s, i + Len(KwMap), {NL, BT}) IN
    IF LineStart(s, i) /\ StartsAt(s, i, KwMap) /\ e <= Len(s) /\ s[e] = BT
    THEN map_continuation(s, e) ELSE 0

\* the five re.sub passes.  st = [md, image, map, raised]: the text built so
\* far and the two registries.
RECURSIVE image_sub(_, _, _)
image_sub(s, i, st) ==
    The({IF j = 0 THEN [st EXCEPT !.md = @ \o From(s, i)]
         ELSE The({The({The({image_sub(s, m.e + 1, st2)
              : st2 \in {[st EXCEPT !.md = @ \o Slice(s, i, j) \o r.tag,
                                    !.image = r.registry]}})
              : r \in {convert_image_tag(Strip(Slice(s, m.b, m.e), ReSpace), st.image)}})
              : m \in {image_match(s, j)}})
         : j \in {First({k \in i..Len(s) : image_match_end(s, k) > 0})}})

RECURSIVE image_compare_sub(_, _, _)
image_compare_sub(s, i, st) ==
    The({IF j = 0 THEN [st EXCEPT !.md = @ \o From(s, i)]
         ELSE The({The({The({image_compare_sub(s, m.e + 1, st2)
              : st2 \in {[st EXCEPT !.md = @ \o Slice(s, i, j) \o r.tag,
                                    !.image = r.registry]}})
              : r \in {convert_image_compare_tag(Strip(Slice(s, m.b, m.e), ReSpace), st.image)}})
              : m \in {keyword_match(s, j, KwImageCompare)}})
         : j \in {First({k \in i..Len(s) : image_compare_match_end(s, k) > 0})}})

RECURSIVE map_sub(_, _, _)
map_sub(s, i, st) ==
    IF st.raised THEN st
    ELSE
    The({IF j = 0 THEN [st EXCEPT !.md = @ \o From(s, i)]
         ELSE The({The({The({map_sub(s, e + 1, st2)
              : st2 \in {[st EXCEPT !.md = @ \o Slice(s, i, j) \o r.tag,
                                    !.map = r.registry, !.raised = r.raised]}})
              : r \in {convert_map_block(Slice(s, j, e + 1), st.map)}})
              : e \in {map_match(s, j)}})
         : j \in {First({k \in i..Len(s) : map_match(s, k) > 0})}})

RECURSIVE iframe_sub(_, _, _)
iframe_sub(s, i, st) ==
    The({IF j = 0 THEN [st EXCEPT !.md = @ \o From(s, i)]
         ELSE The({The({The({iframe_sub(s, m.e + 1, st2)
              : st2 \in {[st EXCEPT !.md = @ \o Slice(s, i, j) \o r.tag,
                                    !.image = r.registry]}})
              : r \in {convert_iframe_tag(Strip(Slice(s, m.b, m.e), ReSpace), st.image)}})
              : m \in {keyword_match(s, j, KwIframe)}})
         : j \in {First({k \in i..Len(s) : iframe_match_end(s, k) > 0})}})

RECURSIVE youtube_sub(_, _, _)
youtube_sub(s, i, st) ==
    The({IF j = 0 THEN [st EXCEPT !.md = @ \o From(s, i)]
         ELSE The({The({The({youtube_sub(s, m.e + 1, st2)
              : st2 \in {[st EXCEPT !.md = @ \o Slice(s, i, j) \o r.tag,
                                    !.image = r.registry]}})
              : r \in {convert_youtube_tag(Strip(Slice(s, m.b, m.e), ReSpace), st.image)}})
              : m \in {keyword_match(s, j, KwYoutube)}})
         : j \in {First({k \in i..Len(s) : youtube_match_end(s, k) > 0})}})

\* convert_params(md) run with the registries image and map:
\* [md, image, map, raised].  When a converter raises, the registries keep
\* what was counted before the exception and md is not returned.
convert_params(md, image, map) ==
    The({The({The({The({
        IF s3.raised THEN [s3 EXCEPT !.md = <<>>]
        ELSE The({youtube_sub(s4.md, 1, [s4 EXCEPT !.md = <<>>])
                  : s4 \in {iframe_sub(s3.md, 1, [s3 EXCEPT !.md = <<>>])}})
        : s3 \in {map_sub(s2.md, 1, [s2 EXCEPT !.md = <<>>])}})
        : s2 \in {image_compare_sub(s1.md, 1, [s1 EXCEPT !.md = <<>>])}})
        : s1 \in {image_sub(s0.md, 1, [s0 EXCEPT !.md = <<>>])}})
        : s0 \in {[md |-> md, image |-> image, map |-> map, raised |-> FALSE]}})

(***************************************************************************)
(* Front matter (convert.py 41-96)                                         *)
(***************************************************************************)
\* the byte-order mark, one character of the text
BOM == "BOM"
KwDashes == <<"-", "-", "-">>
KwClose == <<NL, "-", "-", "-">>

\* the closing line of _FRONT_MATTER_RE at p:  \n---[ \t]*(?:\n|\Z)
\* the position after the match, 0 if it does not match at p
front_matter_close(s, p) ==
    LET c == SkipSet(s, p + Len(KwClose), SpaceTab) IN
    IF StartsAt(s, p, KwClose) /\ (c > Len(s) \/ s[c] = NL)
    THEN (IF c > Len(s) THEN c ELSE c + 1) ELSE 0

\* _FRONT_MATTER_RE.search(md_text): [ok, yaml, end]; the lazy (?P<yaml>.*?)
\* stops at the first closing line
front_matter_search(s) ==
    The({The({The({
        IF StartsAt(s, b, KwDashes) /\ a <= Len(s) /\ s[a] = NL /\ p > 0
        THEN [ok |-> TRUE, yaml |-> Slice(s, a + 1, p), end |-> front_matter_close(s, p)]
        ELSE [ok |-> FALSE, yaml |-> <<>>, end |-> 1]
        : p \in {First({k \in (a + 1)..Len(s) : front_matter_close(s, k) > 0})}})
        : a \in {SkipSet(s, b + Len(KwDashes), SpaceTab)}})
        : b \in {IF s # <<>> /\ s[1] = BOM THEN 2 ELSE 1}})

\* One line of a YAML payload, for the block mappings of plain scalars that
\* essays carry: "blank", "pair" (key: value) or "other".
yaml_line(line) ==
    LET t == Strip(line, SpaceTab)
        k == SkipSet(t, 1, WordChars)
    IN
    IF t = <<>> THEN [kind |-> "blank", key |-> <<>>, value |-> None]
    ELSE IF k > 1 /\ k <= Len(t) /\ t[k] = ":" /\ (k = Len(t) \/ t[k + 1] = " ")
    THEN [kind |-> "pair", key |-> Slice(t, 1, k),
          value |-> IF Strip(From(t, k + 1), SpaceTab) = <<>> THEN None
                    ELSE Strip(From(t, k + 1), SpaceTab)]
    ELSE [kind |-> "other", key |-> <<>>, value |-> None]

RECURSIVE yaml_pairs(_, _, _)
yaml_pairs(lines, i, data) ==
    IF i > Len(lines) THEN data
    ELSE The({The({yaml_pairs(lines, i + 1, d)
              : d \in {IF l.kind = "pair" THEN DictSet(data, l.key, l.value) ELSE data}})
              : l \in {yaml_line(lines[i])}})

\* yaml.load(raw_yaml, Loader=NoDatesSafeLoader) on such payloads:
\* kind "none" (empty document), "mapping", "other" (a scalar or a
\* sequence: not a dict) or "error" (yaml.YAMLError).  Scalars stay text:
\* the loader resolves no timestamps.
yaml_load(raw) ==
    The({The({
        IF kinds \subseteq {"blank"} THEN [kind |-> "none", data |-> <<>>]
        ELSE IF kinds \subseteq {"blank", "pair"}
        THEN [kind |-> "mapping", data |-> yaml_pairs(lines, 1, <<>>)]
        ELSE IF "pair" \in kinds THEN [kind |-> "error", data |-> <<>>]
        ELSE [kind |-> "other", data |-> <<>>]
        : kinds \in {{yaml_line(lines[i]).kind : i \in 1..Len(lines)}}})
        : lines \in {split_lines(raw, 1, <<>>)}})

\* extract_front_matter(md_text): [raised, data]; raised: ValueError
extract_front_matter(md_text) ==
    The({IF ~m.ok THEN [raised |-> FALSE, data |-> <<>>]
         ELSE The({IF y.kind \in {"error", "other"} THEN [raised |-> TRUE, data |-> <<>>]
                   ELSE [raised |-> FALSE, data |-> y.data]
                   : y \in {yaml_load(m.yaml)}})
         : m \in {front_matter_search(md_text)}})

\* split_front_matter(md_text): [raised, fm, body]
split_front_matter(md_text) ==
    The({IF ~m.ok THEN [raised |-> FALSE, fm |-> <<>>, body |-> md_text]
         ELSE The({[raised |-> fm.raised, fm |-> fm.data, body |-> From(md_text, m.end)]
                   : fm \in {extract_front_matter(md_text)}})
         : m \in {front_matter_search(md_text)}})

\* a nested mapping as a value of the front matter
DictValue(d) == <<"dict", d>>
IsDictValue(v) == Len(v) = 2 /\ v[1] = "dict"

YamlNull == <<"n", "u", "l", "l">>
YamlEmptyStr == <<SQ, SQ>>
YamlEmptyMap == <<"{", "}", NL>>
yaml_scalar(v) == IF v = None THEN YamlNull ELSE IF v = <<>> THEN YamlEmptyStr ELSE v

\* yaml.safe_dump of a mapping of plain scalars, block style, keys in
\* insertion order, nested mappings indented by two blanks
RECURSIVE yaml_dump_items(_, _, _)
yaml_dump_items(d, i, indent) ==
    IF i > Len(d) THEN <<>>
    ELSE LET k == d[i][1]
             v == d[i][2]
         IN (IF IsDictValue(v)
             THEN indent \o k \o <<":">>
                  \o (IF v[2] = <<>> THEN <<" ", "{", "}", NL>>
                      ELSE <<NL>> \o yaml_dump_items(v[2], 1, indent \o <<" ", " ">>))
             ELSE indent \o k \o <<":", " ">> \o yaml_scalar(v) \o <<NL>>)
            \o yaml_dump_items(d, i + 1, indent)

\* front_matter_to_str(fm)
front_matter_to_str(fm) ==
    IF fm = <<>> THEN YamlEmptyMap ELSE yaml_dump_items(fm, 1, <<>>)

(***************************************************************************)
(* convert (convert.py 364-420)                                            *)
(***************************************************************************)
KeyMediaSubpath == <<"m", "e", "d", "i", "a", "_", "s", "u", "b", "p", "a", "t", "h">>
KeyImage == <<"i", "m", "a", "g", "e">>
KeyPath == <<"p", "a", "t", "h">>
KeyImg == <<"i", "m", "g">>
AssetsUrl == <<"h", "t", "t", "p", "s", ":", "/", "/", "r", "a", "w", ".", "g", "i", "t", "h", "u", "b", "u", "s", "e", "r", "c", "o", "n", "t", "e", "n", "t", ".", "c", "o", "m", "/", "p", "l", "a", "n", "t", "-", "h", "u", "m", "a", "n", "i", "t", "i", "e", "s", "/", "c", "h", "i", "r", "p", "y", "/", "m", "a", "i", "n", "/", "a", "s", "s", "e", "t", "s", "/">>
MdSuffix == <<".", "m", "d">>
\* the dest argument
dest == <<"_", "p", "o", "s", "t", "s">>

\* One iteration of the loop of lines 375-417 on the walk entry e
\* = [name, index, dirs, date, md] with the registries image and map:
\*   "skipped"  line 377
\*   "raised"   an exception leaves convert (ValueError at line 393,
\*              KeyError at line 398)
\*   "error"    convert_params raised, caught at line 402
\*   "written"  the file was written
convert_skipped(image, map) ==
    [outcome |-> "skipped", image |-> image, map |-> map, path |-> <<>>, content |-> <<>>]
convert_entry(e, image, map) ==
    IF ~e.index \/ e.dirs THEN convert_skipped(image, map)
    ELSE
    The({IF sp.raised THEN [convert_skipped(image, map) EXCEPT !.outcome = "raised"]
         ELSE
         The({IF ~HasKey(hd.attrs, KeyImg)
              THEN [convert_skipped(image, map) EXCEPT !.outcome = "raised"]
              ELSE
              The({IF cp.raised
                   THEN [convert_skipped(cp.image, cp.map) EXCEPT !.outcome = "error"]
                   ELSE
                   The({The({
                       [outcome |-> "written", image |-> cp.image, map |-> cp.map,
                        path    |-> dest \o <<"/">> \o e.date \o <<"-">> \o e.name \o MdSuffix,
                        content |-> KwDashes \o <<NL>> \o front_matter_to_str(fm)
                                    \o KwDashes \o <<NL>> \o body]
                       : body \in {clean(cp.md)}})
                       : fm \in {DictSet(DictSet(sp.fm, KeyMediaSubpath, AssetsUrl \o e.name),
                                         KeyImage,
                                         DictValue(<<<<KeyPath, Get(hd.attrs, KeyImg)>>>>))}})
                   : cp \in {convert_params(hd.text, image, map)}})
              : hd \in {extract_header_tag(sp.body)}})
         : sp \in {split_front_matter(e.md)}})

(***************************************************************************)
(* Inputs.                                                                 *)
(***************************************************************************)
\* the concatenations of at most n texts of pool
RECURSIVE Texts(_, _)
Texts(pool, n) ==
    IF n = 0 THEN {<<>>}
    ELSE LET prev == Texts(pool, n - 1) IN prev \cup {t \o f : t \in prev, f \in pool}

\* the sequences of at most n elements of pool
Seqs(pool, n) == UNION {[1..k -> pool] : k \in 0..n}

MaxDocs == 3
MaxMax == 2
MaxConversions == 3
MaxTokens == 2
MaxCleanFrags == 5
MaxAttrFrags == 4
MaxDictTokens == 3
MaxHeaderFrags == 4
MaxSubLines == 2
MaxFrontMatterFrags == 4
MaxMaxRetries == 6

\* the creation date convert derives for an entry (st_birthtime)
WalkDate == <<"2", "0", "2", "4", "-", "0", "5", "-", "0", "1">>

\* walk entries: an essay with a header and an iframe, one with front matter
\* and an image, one without header tag, one whose front matter is a YAML
\* sequence, one whose map block makes convert_map_block raise, a directory
\* with subdirectories, a directory without index.md
EntryGood ==
    [name |-> <<"e", "1">>, index |-> TRUE, dirs |-> FALSE, date |-> WalkDate,
     md |-> <<BT, "h", "e", "a", "d", "e", "r", " ", "i", "m", "g", "=", "a", ".", "j", "p", "g", BT, "\n", "#", " ", "T", "\n", BT, "i", "f", "r", "a", "m", "e", " ", "s", "r", "c", "=", "b", " ", "x", "=", "1", BT, "\n">>]
EntryFrontMatter ==
    [name |-> <<"e", "2">>, index |-> TRUE, dirs |-> FALSE, date |-> WalkDate,
     md |-> <<"-", "-", "-", "\n", "t", "i", "t", "l", "e", ":", " ", "t", "\n", "-", "-", "-", "\n", BT, "h", "e", "a", "d", "e", "r", " ", "i", "m", "g", "=", "c", BT, "\n", BT, "i", "m", "a", "g", "e", " ", "s", "r", "c", "=", "a", " ", "k", "=", "1", BT, "\n">>]
EntryNoHeader ==
    [name |-> <<"e", "3">>, index |-> TRUE, dirs |-> FALSE, date |-> WalkDate,
     md |-> <<"#", " ", "T", "\n", BT, "i", "f", "r", "a", "m", "e", " ", "s", "r", "c", "=", "b", BT, "\n">>]
EntryBadFrontMatter ==
    [name |-> <<"e", "4">>, index |-> TRUE, dirs |-> FALSE, date |-> WalkDate,
     md |-> <<"-", "-", "-", "\n", "-", " ", "a", "\n", "-", "-", "-", "\n", BT, "h", "e", "a", "d", "e", "r", " ", "i", "m", "g", "=", "a", BT, "\n">>]
EntryMapRaises ==
    [name |-> <<"e", "5">>, index |-> TRUE, dirs |-> FALSE, date |-> WalkDate,
     md |-> <<BT, "h", "e", "a", "d", "e", "r", " ", "i", "m", "g", "=", "a", BT, "\n", BT, "m", "a", "p", " ", "z", "=", "1", BT, "\n", BT, "-", " ", "m", "a", "r", "k", "e", "r", " ", "q", "i", "d", " ", "l", "a", "y", "e", "r", "=", "x", BT, "\n">>]
EntryDirs ==
    [name |-> <<"e", "6">>, index |-> TRUE, dirs |-> TRUE, date |-> WalkDate,
     md |-> <<BT, "h", "e", "a", "d", "e", "r", " ", "i", "m", "g", "=", "a", BT, "\n">>]
EntryNoIndex ==
    [name |-> <<"e", "7">>, index |-> FALSE, dirs |-> FALSE, date |-> WalkDate,
     md |-> <<>>]
EntryPool == {EntryGood, EntryFrontMatter, EntryNoHeader, EntryBadFrontMatter,
              EntryMapRaises, EntryDirs, EntryNoIndex}

(***************************************************************************)
(* The batch run: convert(src, dest, max).                                 *)
(***************************************************************************)
Idle ==
    /\ arg = <<>> /\ ret = <<>> /\ ret2 = <<>> /\ nconv = 0

InitBatch ==
    /\ pc = "loop"
    /\ walk \in Seqs(EntryPool, MaxDocs)
    /\ max \in 0..MaxMax
    /\ pos = 1 /\ ctr = 0 /\ written = <<>> /\ errors = 0
    /\ unrecognized_image_attrs = <<>> /\ unrecognized_map_attrs = <<>>
    /\ Idle

\* a variant of max_reached that lets one more document through
max_reached_late(m, c) == m # 0 /\ c > m

\* line 416: if max and ctr >= max
max_reached(m, c) == m # 0 /\ c >= m

\* lines 375-417: one iteration of the loop
Iterate ==
    /\ pc = "loop" /\ pos <= Len(walk)
    /\ \E r \in {convert_entry(walk[pos], unrecognized_image_attrs, unrecognized_map_attrs)} :
       /\ unrecognized_image_attrs' = r.image
       /\ unrecognized_map_attrs' = r.map
       /\ errors' = IF r.outcome = "error" THEN errors + 1 ELSE errors
       /\ ctr' = IF r.outcome = "written" THEN ctr + 1 ELSE ctr
       /\ written' = IF r.outcome = "written"
                     THEN Append(written, [path |-> r.path, content |-> r.content])
                     ELSE written
       /\ pos' = IF r.outcome = "raised" THEN pos ELSE pos + 1
       /\ pc' = IF r.outcome = "raised" THEN "raised"
                ELSE IF r.outcome = "written" /\ max_reached(max, ctr + 1) THEN "break"
                ELSE "loop"
    /\ UNCHANGED <<walk, max, arg, ret, ret2, nconv>>

\* lines 419-420: the end-of-run dump of the registries
Report ==
    /\ \/ pc = "loop" /\ pos > Len(walk)
       \/ pc = "break"
    /\ pc' = "done"
    /\ UNCHANGED <<arg, ret, ret2, walk, pos, max, ctr, written, errors,
                   unrecognized_image_attrs, unrecognized_map_attrs, nconv>>

NextBatch == Iterate \/ Report

Spec == InitBatch /\ [][NextBatch]_vars

(***************************************************************************)
(* clean applied twice to one text.                                        *)
(***************************************************************************)
\* the variables of the batch run, at rest
NoBatch ==
    /\ walk = <<>> /\ pos = 1 /\ max = 0 /\ ctr = 0 /\ written = <<>> /\ errors = 0
    /\ unrecognized_image_attrs = <<>> /\ unrecognized_map_attrs = <<>> /\ nconv = 0

CleanFrags ==
    {<<NL>>, <<"#">>, <<" ">>, <<"a">>, <<"^">>, <<"{", ":", ".", "w", "r", "a", "p", "}">>}

InitClean ==
    /\ pc = "clean"
    /\ arg \in Texts(CleanFrags, MaxCleanFrags)
    /\ ret = <<>> /\ ret2 = <<>>
    /\ NoBatch

\* body = clean(body)
Clean ==
    /\ pc = "clean"
    /\ ret' = clean(arg)
    /\ pc' = "cleaned"
    /\ UNCHANGED <<arg, ret2, walk, pos, max, ctr, written, errors,
                   unrecognized_image_attrs, unrecognized_map_attrs, nconv>>

\* clean applied to its own result
CleanAgain ==
    /\ pc = "cleaned"
    /\ ret2' = clean(ret)
    /\ pc' = "recleaned"
    /\ UNCHANGED <<arg, ret, walk, pos, max, ctr, written, errors,
                   unrecognized_image_attrs, unrecognized_map_attrs, nconv>>

NextClean == Clean \/ CleanAgain

SpecClean == InitClean /\ [][NextClean]_vars

(***************************************************************************)
(* to_dict applied to one attribute text.                                  *)
(***************************************************************************)
DictFrags == {<<"k">>, <<"=">>, <<DQ>>, <<SQ>>, <<" ">>, <<BSL>>}

TokKey1 == <<"k", "e", "y", "1", "=", "v", "a", "l", "1">>
TokKey2 == <<"k", "e", "y", "2", "=", "\"", "a", " ", "b", "\"">>
TokFlag1 == <<"f", "l", "a", "g", "1">>
TokNested == <<"k", "=", "\"", "'", "a", "'", "\"">>
TokSingle == <<"k", "=", "'", "b", "'">>
TokTwoEquals == <<"a", "=", "b", "=", "c">>
DictTokens == {TokKey1, TokKey2, TokFlag1, TokNested, TokSingle, TokTwoEquals}

\* the attribute text of a sequence of tokens
TokensText(ts) == Join(ts, <<" ">>)

DictInputs ==
    Texts(DictFrags, MaxAttrFrags)
        \cup {TokensText(ts) : ts \in Seqs(DictTokens, MaxDictTokens)}

InitDict ==
    /\ pc = "to_dict"
    /\ arg \in DictInputs
    /\ ret = <<>> /\ ret2 = <<>>
    /\ NoBatch

\* attrs = to_dict(attrs_str)
ToDict ==
    /\ pc = "to_dict"
    /\ ret' = to_dict_call(arg)
    /\ pc' = "returned"
    /\ UNCHANGED <<arg, ret2, walk, pos, max, ctr, written, errors,
                   unrecognized_image_attrs, unrecognized_map_attrs, nconv>>

NextDict == ToDict

SpecDict == InitDict /\ [][NextDict]_vars

(***************************************************************************)
(* extract_header_tag applied to one body.                                 *)
(***************************************************************************)
HeaderFrags ==
    {<<BT, "h", "e", "a", "d", "e", "r", " ", "i", "m", "g", "=", "a", BT>>,
     <<BT, "h", "e", "a", "d", "e", "r">>,
     <<BT>>, <<"s">>, <<NL>>,
     <<" ", "k", "=", "v">>}

InitHeader ==
    /\ pc = "extract_header_tag"
    /\ arg \in Texts(HeaderFrags, MaxHeaderFrags)
    /\ ret = <<>> /\ ret2 = <<>>
    /\ NoBatch

\* header, body = extract_header_tag(body)
ExtractHeader ==
    /\ pc = "extract_header_tag"
    /\ ret' = extract_header_tag(arg)
    /\ pc' = "returned"
    /\ UNCHANGED <<arg, ret2, walk, pos, max, ctr, written, errors,
                   unrecognized_image_attrs, unrecognized_map_attrs, nconv>>

NextHeader == ExtractHeader

SpecHeader == InitHeader /\ [][NextHeader]_vars

(***************************************************************************)
(* Directives, and convert_params applied to them.                         *)
(***************************************************************************)
Kinds == {"image", "image-compare", "map", "iframe", "youtube"}
KindKeyword(kind) ==
    CASE kind = "image" -> Tail(KwImage)
      [] kind = "image-compare" -> Tail(KwImageCompare)
      [] kind = "map" -> Tail(KwMap)
      [] kind = "iframe" -> Tail(KwIframe)
      [] OTHER -> Tail(KwYoutube)

\* the continuation lines of a map block, one per token sequence
RECURSIVE SubLinesText(_)
SubLinesText(sublines) ==
    IF sublines = <<>> THEN <<>>
    ELSE <<NL, BT, "-", " ">> \o TokensText(Head(sublines)) \o <<BT>>
         \o SubLinesText(Tail(sublines))

\* the source text of the directive d = [kind, tokens, sublines]
DirectiveText(d) ==
    <<BT>> \o KindKeyword(d.kind)
    \o (IF d.tokens = <<>> THEN <<>> ELSE <<" ">> \o TokensText(d.tokens))
    \o <<BT>> \o SubLinesText(d.sublines)

TokShorthand == <<"#", "f", "o", "o">>
TokIdBar == <<"i", "d", "=", "\"", "b", "a", "r", "\"">>
TokSrc == <<"s", "r", "c", "=", "\"", "a", ".", "j", "p", "g", "\"">>
TokCaption == <<"c", "a", "p", "t", "i", "o", "n", "=", "\"", "A", " ", "c", "a", "t", "\"">>
TokCaptionEmpty == <<"c", "a", "p", "t", "i", "o", "n", "=">>
TokAspect == <<"a", "s", "p", "e", "c", "t">>
TokVid == <<"v", "i", "d", "=", "a", "b", "c", "1", "2", "3">>
TokX == <<"x", "=", "1">>
TokBasemaps == <<"b", "a", "s", "e", "m", "a", "p", "s", "=", "o", "s", "m">>
TokBasemap == <<"b", "a", "s", "e", "m", "a", "p", "=", "b">>
ConvTokens == {TokShorthand, TokIdBar, TokSrc, TokCaption, TokCaptionEmpty, TokAspect,
               TokVid, TokX, TokBasemaps, TokBasemap}

ConvDirectives ==
    {[kind |-> k, tokens |-> ts, sublines |-> <<>>]
     : k \in Kinds, ts \in Seqs(ConvTokens, MaxTokens)}

InitConv ==
    /\ pc = "convert_params"
    /\ arg \in ConvDirectives
    /\ ret = <<>> /\ ret2 = <<>>
    /\ NoBatch

\* body = convert_params(body) on a body that is one directive
ConvertOne ==
    /\ pc = "convert_params"
    /\ \E r \in {convert_params(DirectiveText(arg), unrecognized_image_attrs,
                                unrecognized_map_attrs)} :
          /\ ret' = r
          /\ unrecognized_image_attrs' = r.image
          /\ unrecognized_map_attrs' = r.map
    /\ pc' = "converted"
    /\ UNCHANGED <<arg, ret2, walk, pos, max, ctr, written, errors, nconv>>

NextConv == ConvertOne

SpecConv == InitConv /\ [][NextConv]_vars

(***************************************************************************)
(* A run of directive conversions over the two registries.                 *)
(***************************************************************************)
TokY == <<"y", "=", "2">>
TokZoom == <<"z", "o", "o", "m", "=", "4">>
TokBefore == <<"b", "e", "f", "o", "r", "e", "=", "b">>
TokMarker == <<"m", "a", "r", "k", "e", "r">>
TokQid == <<"q", "i", "d", "=", "Q", "1">>
TokLayer == <<"l", "a", "y", "e", "r", "=", "s", "i", "t", "e", "s">>
TokGeojson == <<"g", "e", "o", "j", "s", "o", "n">>
TokUrl == <<"u", "r", "l", "=", "r", "i", "v", "e", "r", "s", ".", "j", "s", "o", "n">>

RegistryDirectives ==
    {[kind |-> "image", tokens |-> <<TokSrc>>, sublines |-> <<>>],
     [kind |-> "image", tokens |-> <<TokSrc, TokX>>, sublines |-> <<>>],
     [kind |-> "image", tokens |-> <<TokSrc, TokX, TokY>>, sublines |-> <<>>],
     [kind |-> "image-compare", tokens |-> <<TokBefore, TokX>>, sublines |-> <<>>],
     [kind |-> "iframe", tokens |-> <<TokSrc, TokX>>, sublines |-> <<>>],
     [kind |-> "youtube", tokens |-> <<TokVid, TokY>>, sublines |-> <<>>],
     [kind |-> "map", tokens |-> <<TokZoom, TokX>>, sublines |-> <<>>],
     [kind |-> "map", tokens |-> <<TokZoom>>,
      sublines |-> <<<<TokMarker, TokQid, TokLayer>>, <<TokGeojson, TokUrl>>>>],
     [kind |-> "map", tokens |-> <<TokZoom>>,
      sublines |-> <<<<TokMarker, TokQid, TokY>>, <<TokGeojson, TokUrl, TokY>>>>]}

InitRegistry ==
    /\ pc = "run"
    /\ arg = <<>> /\ ret = <<>> /\ ret2 = <<>>
    /\ NoBatch

\* one more directive converted in the run: convert_params on a body that
\* is the directive d
ConvertDirective ==
    /\ pc = "run"
    /\ nconv < MaxConversions
    /\ \E d \in RegistryDirectives :
       \E r \in {convert_params(DirectiveText(d), unrecognized_image_attrs,
                                unrecognized_map_attrs)} :
          /\ arg' = d
          /\ ret' = r
          /\ unrecognized_image_attrs' = r.image
          /\ unrecognized_map_attrs' = r.map
    /\ nconv' = nconv + 1
    /\ UNCHANGED <<pc, ret2, walk, pos, max, ctr, written, errors>>

NextRegistry == ConvertDirective

SpecRegistry == InitRegistry /\ [][NextRegistry]_vars

(***************************************************************************)
(* convert_params applied to one map block.                                *)
(***************************************************************************)
TokIdM1 == <<"i", "d", "=", "m", "1">>
TokBasemapOsm == <<"b", "a", "s", "e", "m", "a", "p", "=", "o", "s", "m">>
TokQidBare == <<"q", "i", "d">>
TokUrlBare == <<"u", "r", "l">>
MapTagLines ==
    {<<>>, <<TokIdM1, TokZoom, TokBasemapOsm>>, <<TokBasemaps>>, <<TokShorthand, TokZoom>>}
MapSubLines ==
    {<<TokMarker, TokQid, TokLayer>>,
     <<TokGeojson, TokUrl>>,
     <<TokMarker>>,
     <<TokMarker, TokLayer>>,
     <<TokMarker, TokQidBare>>,
     <<TokGeojson, TokUrlBare, TokLayer>>,
     <<TokMarker, TokGeojson, TokQid, TokUrl>>,
     <<TokX>>}
MapDirectives ==
    {[kind |-> "map", tokens |-> ts, sublines |-> ls]
     : ts \in MapTagLines, ls \in Seqs(MapSubLines, MaxSubLines)}

InitMap ==
    /\ pc = "convert_params"
    /\ arg \in MapDirectives
    /\ ret = <<>> /\ ret2 = <<>>
    /\ NoBatch

SpecMap == InitMap /\ [][NextConv]_vars

(***************************************************************************)
(* split_front_matter, then front_matter_to_str on the mapping it returns   *)
(* (convert.py 393 and 413)                                                *)
(***************************************************************************)
FrontMatterFrags ==
    {KwDashes \o <<NL>>, KwClose, KwDashes, <<NL>>, <<"k", ":", " ", "v">>, <<"x">>, <<" ">>, <<BOM>>}

InitFrontMatter ==
    /\ pc = "split_front_matter"
    /\ arg \in Texts(FrontMatterFrags, MaxFrontMatterFrags)
    /\ ret = <<>> /\ ret2 = <<>>
    /\ NoBatch

\* fm, body = split_front_matter(md_text); a ValueError ends the run
SplitFrontMatter ==
    /\ pc = "split_front_matter"
    /\ \E r \in {split_front_matter(arg)} :
          /\ ret' = r
          /\ pc' = IF r.raised THEN "raised" ELSE "front_matter_to_str"
    /\ UNCHANGED <<arg, ret2, walk, pos, max, ctr, written, errors,
                   unrecognized_image_attrs, unrecognized_map_attrs, nconv>>

\* front_matter_to_str(fm)
FrontMatterToStr ==
    /\ pc = "front_matter_to_str"
    /\ ret2' = front_matter_to_str(ret.fm)
    /\ pc' = "serialized"
    /\ UNCHANGED <<arg, ret, walk, pos, max, ctr, written, errors,
                   unrecognized_image_attrs, unrecognized_map_attrs, nconv>>

NextFrontMatter == SplitFrontMatter \/ FrontMatterToStr

SpecFrontMatter == InitFrontMatter /\ [][NextFrontMatter]_vars

(***************************************************************************)
(* with_retries (generate-ai-tags.py 128-148)                              *)
(***************************************************************************)
\* RetryConfig defaults.  Durations are exact rationals [num, den]; the
\* backoff factor 1.8 is 9/5.
InitialSleepS == 1
MaxSleepS == 20
BackoffNum == 9
BackoffDen == 5
\* the configurations a run is given: max_retries up to the default 6, the
\* default cap on a sleep and one that the backoff reaches
RetryConfigs ==
    {[max_retries |-> n, initial_sleep_s |-> [num |-> InitialSleepS, den |-> 1],
      max_sleep_s |-> c]
     : n \in 1..MaxMaxRetries, c \in {2, MaxSleepS}}

\* min(sleep_s, retry.max_sleep_s)
min_sleep(sleep_s, max_sleep_s) ==
    IF sleep_s.num <= max_sleep_s * sleep_s.den
    THEN sleep_s ELSE [num |-> max_sleep_s, den |-> 1]
\* sleep_s *= retry.backoff_factor
backoff(sleep_s) == [num |-> sleep_s.num * BackoffNum, den |-> sleep_s.den * BackoffDen]

\* a variant of last_attempt that never ends the loop early
last_attempt_never(attempt, retry) == FALSE

\* line 144: attempt == retry.max_retries
last_attempt(attempt, retry) == attempt = retry.max_retries

\* arg is retry; ret2 holds the locals attempt, sleep_s and last_err and
\* the calls of fn and of time.sleep made so far; ret is how the call ended
InitRetry ==
    /\ pc = "try"
    /\ arg \in RetryConfigs
    /\ ret = <<>>
    /\ ret2 = [attempt |-> 1, sleep_s |-> arg.initial_sleep_s, last_err |-> None,
               events |-> <<>>]
    /\ NoBatch

RetryUnchanged ==
    UNCHANGED <<arg, walk, pos, max, ctr, written, errors,
                unrecognized_image_attrs, unrecognized_map_attrs, nconv>>

\* line 141: fn() returns
CallReturns ==
    /\ pc = "try"
    /\ ret2' = [ret2 EXCEPT !.events = Append(@, <<"fn", ret2.attempt, "returned">>)]
    /\ ret' = [kind |-> "returned", value |-> <<"result", ret2.attempt>>]
    /\ pc' = "returned"
    /\ RetryUnchanged

\* lines 142-145: fn() raises an Exception; on the last attempt the loop is
\* left and line 148 raises it
CallRaises ==
    /\ pc = "try"
    /\ ret2' = [ret2 EXCEPT !.events = Append(@, <<"fn", ret2.attempt, "raised">>),
                            !.last_err = <<"Exception", ret2.attempt>>]
    /\ IF last_attempt(ret2.attempt, arg)
       THEN /\ ret' = [kind |-> "raised", value |-> <<"Exception", ret2.attempt>>]
            /\ pc' = "raised"
       ELSE /\ ret' = ret
            /\ pc' = "sleep"
    /\ RetryUnchanged

\* fn() raises a BaseException that is no Exception (KeyboardInterrupt,
\* SystemExit): line 142 does not catch it
CallAborts ==
    /\ pc = "try"
    /\ ret2' = [ret2 EXCEPT !.events = Append(@, <<"fn", ret2.attempt, "raised">>)]
    /\ ret' = [kind |-> "raised", value |-> <<"BaseException", ret2.attempt>>]
    /\ pc' = "raised"
    /\ RetryUnchanged

\* lines 146-147, then the next value of range(1, max_retries + 1) or, if
\* there is none, line 148
Sleep ==
    /\ pc = "sleep"
    /\ ret2' = [ret2 EXCEPT !.events = Append(@, <<"sleep", min_sleep(ret2.sleep_s, arg.max_sleep_s)>>),
                            !.sleep_s = backoff(@),
                            !.attempt = IF @ < arg.max_retries THEN @ + 1 ELSE @]
    /\ IF ret2.attempt < arg.max_retries
       THEN /\ ret' = ret
            /\ pc' = "try"
       ELSE /\ ret' = [kind |-> "raised", value |-> ret2.last_err]
            /\ pc' = "raised"
    /\ RetryUnchanged

NextRetry == CallReturns \/ CallRaises \/ CallAborts \/ Sleep

SpecRetry == InitRetry /\ [][NextRetry]_vars

(***************************************************************************)
(* Properties.  What follows states the documented behaviour; nothing below *)
(* is part of the model of the program.                                    *)
(***************************************************************************)
\* an entry that convert writes when it is the only one
Convertible(e) == convert_entry(e, <<>>, <<>>).outcome = "written"

\* C1: in a batch run a failure while converting one document (bad front
\* matter, a header without img, an exception in directive conversion) is
\* caught, only that document is abandoned, and every later document is
\* still processed and written: no exception leaves convert, and a run
\* without max that has ended has written every document that converts.
BatchSurvivesFailures ==
    /\ pc # "raised"
    /\ (pc = "done" /\ max = 0) =>
           \A i \in 1..Len(walk) :
               Convertible(walk[i]) =>
                   \E k \in 1..Len(written) :
                       written[k].path = convert_entry(walk[i], <<>>, <<>>).path

\* a document without header directive before a good one: the KeyError of
\* line 398 ends the run with nothing written
BatchAborted ==
    /\ pc = "raised"
    /\ walk = <<EntryNoHeader, EntryGood>>
    /\ pos = 1
    /\ written = <<>>

\* the recognized attributes of each directive, in the documented order
RowImage ==
    <<<<"i", "d">>, <<"s", "r", "c">>, <<"m", "a", "n", "i", "f", "e", "s", "t">>, <<"s", "e", "q">>, <<"c", "a", "p", "t", "i", "o", "n">>, <<"a", "t", "t", "r", "i", "b", "u", "t", "i", "o", "n">>, <<"d", "e", "s", "c", "r", "i", "p", "t", "i", "o", "n">>,
      <<"l", "a", "b", "e", "l">>, <<"l", "i", "c", "e", "n", "s", "e">>, <<"s", "o", "u", "r", "c", "e">>, <<"c", "o", "v", "e", "r">>, <<"r", "e", "g", "i", "o", "n">>, <<"r", "o", "t", "a", "t", "i", "o", "n">>, <<"a", "s", "p", "e", "c", "t">>>>
RowImageCompare == <<<<"i", "d">>, <<"b", "e", "f", "o", "r", "e">>, <<"a", "f", "t", "e", "r">>, <<"c", "a", "p", "t", "i", "o", "n">>, <<"a", "s", "p", "e", "c", "t">>>>
RowMap == <<<<"i", "d">>, <<"c", "e", "n", "t", "e", "r">>, <<"z", "o", "o", "m">>, <<"b", "a", "s", "e", "m", "a", "p">>, <<"b", "a", "s", "e", "m", "a", "p", "s">>, <<"c", "a", "p", "t", "i", "o", "n">>, <<"a", "s", "p", "e", "c", "t">>>>
RowIframe == <<<<"i", "d">>, <<"s", "r", "c">>, <<"c", "a", "p", "t", "i", "o", "n">>, <<"a", "s", "p", "e", "c", "t">>>>
RowYoutube == <<<<"i", "d">>, <<"v", "i", "d">>, <<"c", "a", "p", "t", "i", "o", "n">>, <<"a", "s", "p", "e", "c", "t">>>>
TableRow(kind) ==
    CASE kind = "image" -> RowImage
      [] kind = "image-compare" -> RowImageCompare
      [] kind = "map" -> RowMap
      [] kind = "iframe" -> RowIframe
      [] OTHER -> RowYoutube
\* the keys the continuation lines of a map block are documented to carry
SubLineKeys == {<<"m", "a", "r", "k", "e", "r">>, <<"q", "i", "d">>, <<"g", "e", "o", "j", "s", "o", "n">>, <<"u", "r", "l">>, <<"l", "a", "y", "e", "r">>}
RecognizedSet(kind) ==
    Range(TableRow(kind)) \cup (IF kind = "map" THEN SubLineKeys ELSE {})

\* the attribute names that appear in the directive d and are outside the
\* recognized set of its converter
TokenKey(token) ==
    IF IndexOf(token, "=", 1) > 0 THEN Slice(token, 1, IndexOf(token, "=", 1)) ELSE token
TokenKeys(ts) == {TokenKey(ts[i]) : i \in 1..Len(ts)}
DirectiveKeys(d) ==
    TokenKeys(d.tokens) \cup UNION {TokenKeys(d.sublines[i]) : i \in 1..Len(d.sublines)}
UnrecognizedIn(d) == DirectiveKeys(d) \ RecognizedSet(d.kind)
Count(registry, name) == IF HasKey(registry, name) THEN Get(registry, name) ELSE 0

\* C2: each occurrence of a directive increments the registry counter of an
\* attribute name by exactly one if the name appears in the occurrence and
\* is outside the converter's recognized set (image-family names in the
\* image registry, map names in the map registry), and changes no other
\* counter: counters are cumulative and never reset or decremented.
RegistryCountsOncePerOccurrence ==
    [][nconv' = nconv + 1 =>
          \A name \in Keys(unrecognized_image_attrs') \cup Keys(unrecognized_map_attrs')
                        \cup UnrecognizedIn(arg') :
              /\ Count(unrecognized_image_attrs', name)
                   = Count(unrecognized_image_attrs, name)
                     + (IF arg'.kind # "map" /\ name \in UnrecognizedIn(arg') THEN 1 ELSE 0)
              /\ Count(unrecognized_map_attrs', name)
                   = Count(unrecognized_map_attrs, name)
                     + (IF arg'.kind = "map" /\ name \in UnrecognizedIn(arg') THEN 1 ELSE 0)
      ]_vars

\* one map block with y=2 on two continuation lines: y is counted twice
RegistryCountsTwice ==
    /\ nconv = 1
    /\ arg.kind = "map"
    /\ Count(unrecognized_map_attrs, <<"y">>) = 2

\* C3: every tag converter records each attribute key outside its
\* recognized set: image, image-compare, iframe and youtube in the image
\* registry, map in the map registry.
RegistryRecordsUnrecognized ==
    (pc = "run" /\ nconv > 0) =>
        \A name \in UnrecognizedIn(arg) :
            IF arg.kind = "map" THEN HasKey(unrecognized_map_attrs, name)
            ELSE HasKey(unrecognized_image_attrs, name)

\* an iframe directive with x=1 converted first: nothing is recorded
RegistryMissesIframe ==
    /\ nconv = 1
    /\ arg = [kind |-> "iframe", tokens |-> <<TokSrc, TokX>>, sublines |-> <<>>]
    /\ unrecognized_image_attrs = <<>>
    /\ unrecognized_map_attrs = <<>>

\* C4: clean is idempotent: for every text x, clean(clean(x)) = clean(x).
CleanIdempotent == pc = "recleaned" => ret2 = ret

\* the text "# a\n#": its empty last heading goes, and the second pass then
\* puts a blank line after the heading that is left
CleanDiverges ==
    /\ pc = "recleaned"
    /\ arg = <<"#", " ", "a", "\n", "#">>
    /\ ret = <<"#", " ", "a", "\n">>
    /\ ret2 = <<"#", " ", "a", "\n", "\n">>

\* The quoting state a shell-style reader is in at the end of s:
\* "plain", "single" or "double" (inside such quotes), "escape" (after an
\* escape character outside quotes), "double-escape" (after one inside
\* double quotes).
QuoteStep(q, c) ==
    CASE q = "plain" -> (IF c = SQ THEN "single" ELSE IF c = DQ THEN "double"
                         ELSE IF c = BSL THEN "escape" ELSE "plain")
      [] q = "single" -> (IF c = SQ THEN "plain" ELSE "single")
      [] q = "double" -> (IF c = DQ THEN "plain" ELSE IF c = BSL THEN "double-escape"
                          ELSE "double")
      [] q = "escape" -> "plain"
      [] OTHER -> "double"
RECURSIVE QuoteState(_, _, _)
QuoteState(s, i, q) ==
    IF i > Len(s) THEN q
    ELSE The({QuoteState(s, i + 1, n) : n \in {QuoteStep(q, s[i])}})
UnterminatedQuote(s) == QuoteState(s, 1, "plain") \in {"single", "double", "double-escape"}
DanglingEscape(s) == QuoteState(s, 1, "plain") = "escape"

\* the maximal runs of non-whitespace characters of s, left to right
RunStarts(s) == {i \in 1..Len(s) : s[i] \notin ReSpace /\ (i = 1 \/ s[i - 1] \in ReSpace)}
NthStart(s, k) == CHOOSE b \in RunStarts(s) : Cardinality({x \in RunStarts(s) : x <= b}) = k
WhitespaceRuns(s) ==
    [k \in 1..Cardinality(RunStarts(s)) |->
        Slice(s, NthStart(s, k), FindSet(s, NthStart(s, k), ReSpace))]

\* C5 (as amended): to_dict never raises; it prints exactly one diagnostic
\* and returns the map of the plain whitespace split when the text ends
\* inside a quotation or right after an escape character, and prints no
\* diagnostic otherwise.
ToDictDiagnostics ==
    pc = "returned" =>
        /\ ~ret.raised
        /\ IF UnterminatedQuote(arg) \/ DanglingEscape(arg)
           THEN /\ ret.diags = 1
                /\ ret.attrs = tokens_to_attrs(WhitespaceRuns(arg), <<>>)
           ELSE ret.diags = 0

\* an unterminated quote after a blank: one diagnostic, and the two
\* whitespace-separated tokens as bare keys
ToDictFallsBack ==
    /\ pc = "returned"
    /\ arg = <<"k", " ", DQ, "k">>
    /\ ret.diags = 1
    /\ ret.attrs = <<<<<<"k">>, None>>, <<<<DQ, "k">>, None>>>>

\* C5 as stated: to_dict never raises; an unterminated quote gives exactly
\* one diagnostic and the whitespace-split map; a text whose quotes are
\* balanced gives no diagnostic.
ToDictBalancedIsSilent ==
    pc = "returned" =>
        /\ ~ret.raised
        /\ IF UnterminatedQuote(arg)
           THEN /\ ret.diags = 1
                /\ ret.attrs = tokens_to_attrs(WhitespaceRuns(arg), <<>>)
           ELSE ret.diags = 0

\* one layer of surrounding quote characters taken off v
OneLayerStripped(v) ==
    IF Len(v) >= 2 /\ v[1] \in {DQ, SQ} /\ v[Len(v)] = v[1]
    THEN SubSeq(v, 2, Len(v) - 1) ELSE v
\* the key and value documented for one token
DocumentedPair(token) ==
    IF IndexOf(token, "=", 1) > 0
    THEN <<Slice(token, 1, IndexOf(token, "=", 1)),
           OneLayerStripped(From(token, IndexOf(token, "=", 1) + 1))>>
    ELSE <<token, None>>
RECURSIVE DocumentedAttrs(_, _)
DocumentedAttrs(ts, attrs) ==
    IF ts = <<>> THEN attrs
    ELSE The({DocumentedAttrs(Tail(ts), a)
              : a \in {DictSet(attrs, DocumentedPair(Head(ts))[1], DocumentedPair(Head(ts))[2])}})

\* C6: to_dict maps each token with "=" to key and value split at the first
\* "=", the value with exactly one layer of surrounding quotes stripped, and
\* each token without "=" to a key with a null value.
ToDictOneLayer ==
    pc = "returned" =>
        \A ts \in Seqs(DictTokens, MaxDictTokens) :
            arg = TokensText(ts) => ret.attrs = DocumentedAttrs(ts, <<>>)

\* the token k="'a'": both layers of quotes are gone from the value
ToDictStripsAllLayers ==
    /\ pc = "returned"
    /\ arg = TokNested
    /\ ret.attrs = <<<<<<"k">>, <<"a">>>>>>

\* a header directive stands at positions b..e of s: the keyword after a
\* backtick, not continued by a word character, up to the next backtick
HeaderSpan(s, b, e) ==
    /\ StartsAt(s, b, KwHeader)
    /\ b + Len(KwHeader) <= e /\ e <= Len(s)
    /\ s[b + Len(KwHeader)] \notin WordChars
    /\ s[e] = BT
    /\ \A k \in (b + Len(KwHeader))..(e - 1) : s[k] # BT
HeaderSpans(s) == {x \in (1..Len(s)) \X (1..Len(s)) : HeaderSpan(s, x[1], x[2])}
FirstHeaderSpan(s) == CHOOSE x \in HeaderSpans(s) : \A y \in HeaderSpans(s) : x[1] <= y[1]
\* s without positions b..e, everything else unchanged and in order
Without(s, b, e) ==
    [i \in 1..(Len(s) - (e - b + 1)) |-> IF i < b THEN s[i] ELSE s[i + (e - b + 1)]]

\* C7: extract_header_tag removes exactly the span of the first header
\* directive and leaves every other character, later header directives
\* included, unchanged and in order; without a header directive it returns
\* an empty map and the original body.
ExtractHeaderFrame ==
    pc = "returned" =>
        \A spans \in {HeaderSpans(arg)} :
            IF spans = {} THEN ret.attrs = <<>> /\ ret.text = arg
            ELSE \A x \in {FirstHeaderSpan(arg)} : ret.text = Without(arg, x[1], x[2])

\* two header directives around a letter: the first goes, the second stays
ExtractHeaderKeepsLater ==
    /\ pc = "returned"
    /\ arg = <<BT, "h", "e", "a", "d", "e", "r", " ", "i", "m", "g", "=", "a", BT, "s", BT, "h", "e", "a", "d", "e", "r", " ", "i", "m", "g", "=", "a", BT>>
    /\ ret.text = <<"s", BT, "h", "e", "a", "d", "e", "r", " ", "i", "m", "g", "=", "a", BT>>
    /\ ret.attrs = <<<<<<"i", "m", "g">>, <<"a">>>>>>

\* The attributes of an include string s from position i on, as pairs
\* <<name, value>>: name="value" and a blank, repeated.  rest: where the
\* reading stopped.
RECURSIVE EmittedFrom(_, _, _)
EmittedFrom(s, i, acc) ==
    The({IF eq = 0 \/ eq + 1 > Len(s) \/ s[eq + 1] # DQ THEN [attrs |-> acc, rest |-> i]
         ELSE The({IF q = 0 \/ q + 1 > Len(s) \/ s[q + 1] # " "
                   THEN [attrs |-> acc, rest |-> i]
                   ELSE The({EmittedFrom(s, q + 2, a)
                             : a \in {Append(acc, <<Slice(s, i, eq), Slice(s, eq + 2, q)>>)}})
                   : q \in {IndexOf(s, DQ, eq + 2)}})
         : eq \in {IndexOf(s, "=", i)}})

IncludeHead == <<"{", "%", " ", "i", "n", "c", "l", "u", "d", "e", " ", "e", "m", "b", "e", "d", "/">>
IncludeFor(kind) == IncludeHead \o KindKeyword(kind) \o <<".", "h", "t", "m", "l", " ">>
IncludeTail == <<"%", "}">>
ClassPair == <<<<"c", "l", "a", "s", "s">>, <<"r", "i", "g", "h", "t">>>>
IncludeAttrs(kind, s) == EmittedFrom(s, Len(IncludeFor(kind)) + 1, <<>>)
\* s is {% include embed/<kind>.html ... class="right" %}
IsInclude(kind, s) ==
    /\ StartsAt(s, 1, IncludeFor(kind))
    /\ \A p \in {IncludeAttrs(kind, s)} :
          /\ p.attrs # <<>>
          /\ p.attrs[Len(p.attrs)] = ClassPair
          /\ From(s, p.rest) = IncludeTail
\* the attributes of the include string s before class="right"
Emitted(kind, s) ==
    SubSeq(IncludeAttrs(kind, s).attrs, 1, Len(IncludeAttrs(kind, s).attrs) - 1)

\* the attribute map of the directive d
DirectiveAttrs(d) == to_dict(TokensText(d.tokens))
\* its keys written with the # shorthand
ShorthandKeys(attrs) == {k \in Keys(attrs) : k # <<>> /\ k[1] = "#"}

\* C8: for every directive kind, a directive with the #foo shorthand and an
\* explicit id="bar", wherever #foo stands in the attribute text, becomes
\* an include string with two id attributes, id="foo" first.
ShorthandAndIdBothEmitted ==
    (pc = "converted" /\ Range(arg.tokens) = {TokShorthand, TokIdBar}) =>
        /\ IsInclude(arg.kind, ret.md)
        /\ \A em \in {Emitted(arg.kind, ret.md)} :
              /\ Cardinality({k \in 1..Len(em) : em[k][1] = <<"i", "d">>}) = 2
              /\ em[1] = <<<<"i", "d">>, <<"f", "o", "o">>>>
              /\ \E k \in 2..Len(em) : em[k] = <<<<"i", "d">>, <<"b", "a", "r">>>>

\* image with #foo before id="bar": the directive is left as it stands
ShorthandFirstNotConverted ==
    /\ pc = "converted"
    /\ arg = [kind |-> "image", tokens |-> <<TokShorthand, TokIdBar>>, sublines |-> <<>>]
    /\ ret.md = DirectiveText(arg)

\* the documented special cases of the table
PresenceKinds == {"image", "map"}
OutputName(kind, name) ==
    IF kind = "map" /\ name = <<"b", "a", "s", "e", "m", "a", "p", "s">> THEN <<"b", "a", "s", "e", "m", "a", "p">>
    ELSE IF kind = "youtube" /\ name = <<"v", "i", "d">> THEN <<"i", "d">>
    ELSE name
\* the recognized attributes documented to be emitted for attrs, in the
\* order of the table row, from its i-th name on
RECURSIVE CanonicalFrom(_, _, _)
CanonicalFrom(kind, attrs, i) ==
    IF i > Len(TableRow(kind)) THEN <<>>
    ELSE (IF /\ HasKey(attrs, TableRow(kind)[i])
             /\ (kind \in PresenceKinds \/ Truthy(Get(attrs, TableRow(kind)[i])))
          THEN <<<<OutputName(kind, TableRow(kind)[i]), Str(Get(attrs, TableRow(kind)[i]))>>>>
          ELSE <<>>)
         \o CanonicalFrom(kind, attrs, i + 1)

ExampleImage == [kind |-> "image", tokens |-> <<TokSrc, TokCaption>>, sublines |-> <<>>]
ExampleImageInclude == <<"{", "%", " ", "i", "n", "c", "l", "u", "d", "e", " ", "e", "m", "b", "e", "d", "/", "i", "m", "a", "g", "e", ".", "h", "t", "m", "l", " ", "s", "r", "c", "=", "\"", "a", ".", "j", "p", "g", "\"", " ", "c", "a", "p", "t", "i", "o", "n", "=", "\"", "A", " ", "c", "a", "t", "\"", " ", "c", "l", "a", "s", "s", "=", "\"", "r", "i", "g", "h", "t", "\"", " ", "%", "}">>

\* C9: a converted directive is {% include embed/<widget>.html ...
\* class="right" %} whose attributes, after the ids of the # shorthand, are
\* the recognized attributes present in the map in the order of the table
\* row, whatever their order in the source; image-compare, iframe and
\* youtube leave out those with an empty or null value, image and map emit
\* every one that is present; and the image example gives the documented
\* string.
CanonicalOrderEmitted ==
    pc = "converted" =>
        /\ ret.md # DirectiveText(arg) =>
              /\ IsInclude(arg.kind, ret.md)
              /\ \A em \in {Emitted(arg.kind, ret.md)}, attrs \in {DirectiveAttrs(arg)} :
                    \A n \in {Cardinality(ShorthandKeys(attrs))} :
                        /\ n <= Len(em)
                        /\ SubSeq(em, n + 1, Len(em)) = CanonicalFrom(arg.kind, attrs, 1)
        /\ arg = ExampleImage => ret.md = ExampleImageInclude

\* iframe with an empty caption before src: src alone is emitted
CanonicalOrderCase ==
    /\ pc = "converted"
    /\ arg = [kind |-> "iframe", tokens |-> <<TokCaptionEmpty, TokSrc>>, sublines |-> <<>>]
    /\ ret.md = <<"{", "%", " ", "i", "n", "c", "l", "u", "d", "e", " ", "e", "m", "b", "e", "d", "/", "i", "f", "r", "a", "m", "e", ".", "h", "t", "m", "l", " ", "s", "r", "c", "=", "\"", "a", ".", "j", "p", "g", "\"", " ", "c", "l", "a", "s", "s", "=", "\"", "r", "i", "g", "h", "t", "\"", " ", "%", "}">>

\* C10: a youtube directive with a non-empty vid attribute becomes an
\* include string that carries the value under the name id and has no vid
\* attribute.
YoutubeVidEmittedAsId ==
    (pc = "converted" /\ arg.kind = "youtube") =>
        \A attrs \in {DirectiveAttrs(arg)} :
            (HasKey(attrs, <<"v", "i", "d">>) /\ Truthy(Get(attrs, <<"v", "i", "d">>))) =>
                /\ IsInclude("youtube", ret.md)
                /\ \A em \in {Emitted("youtube", ret.md)} :
                      /\ \E k \in 1..Len(em) : em[k] = <<<<"i", "d">>, Get(attrs, <<"v", "i", "d">>)>>
                      /\ \A k \in 1..Len(em) : em[k][1] # <<"v", "i", "d">>

\* youtube vid=abc123
YoutubeVidCase ==
    /\ pc = "converted"
    /\ arg = [kind |-> "youtube", tokens |-> <<TokVid>>, sublines |-> <<>>]
    /\ ret.md = <<"{", "%", " ", "i", "n", "c", "l", "u", "d", "e", " ", "e", "m", "b", "e", "d", "/", "y", "o", "u", "t", "u", "b", "e", ".", "h", "t", "m", "l", " ", "i", "d", "=", "\"", "a", "b", "c", "1", "2", "3", "\"", " ", "c", "l", "a", "s", "s", "=", "\"", "r", "i", "g", "h", "t", "\"", " ", "%", "}">>

\* the token documented for a continuation line with attributes attrs: the
\* value under key (the empty string if there is none), then ~<layer> if
\* the line has a layer
DocumentedToken(attrs, key) ==
    (IF HasKey(attrs, key) /\ Get(attrs, key) # None THEN Get(attrs, key) ELSE <<>>)
    \o (IF HasKey(attrs, <<"l", "a", "y", "e", "r">>) THEN <<"~">> \o Str(Get(attrs, <<"l", "a", "y", "e", "r">>)) ELSE <<>>)
\* the tokens of the continuation lines that carry the key flag, in source
\* order
RECURSIVE DocumentedTokens(_, _, _)
DocumentedTokens(sublines, flag, key) ==
    IF sublines = <<>> THEN <<>>
    ELSE (IF HasKey(to_dict(TokensText(Head(sublines))), flag)
          THEN <<DocumentedToken(to_dict(TokensText(Head(sublines))), key)>> ELSE <<>>)
         \o DocumentedTokens(Tail(sublines), flag, key)
\* name="t1|t2|..." as an emitted pair, nothing for an empty list
JoinedPair(name, tokens) ==
    IF tokens = <<>> THEN <<>> ELSE <<<<name, Join(tokens, <<"|">>)>>>>

ExampleMap ==
    [kind |-> "map", tokens |-> <<TokIdM1, TokZoom, TokBasemapOsm>>,
     sublines |-> <<<<TokMarker, TokQid, TokLayer>>, <<TokGeojson, TokUrl>>>>]
ExampleMapInclude == <<"{", "%", " ", "i", "n", "c", "l", "u", "d", "e", " ", "e", "m", "b", "e", "d", "/", "m", "a", "p", ".", "h", "t", "m", "l", " ", "i", "d", "=", "\"", "m", "1", "\"", " ", "z", "o", "o", "m", "=", "\"", "4", "\"", " ", "b", "a", "s", "e", "m", "a", "p", "=", "\"", "o", "s", "m", "\"", " ", "m", "a", "r", "k", "e", "r", "s", "=", "\"", "Q", "1", "~", "s", "i", "t", "e", "s", "\"", " ", "g", "e", "o", "j", "s", "o", "n", "=", "\"", "r", "i", "v", "e", "r", "s", ".", "j", "s", "o", "n", "\"", " ", "c", "l", "a", "s", "s", "=", "\"", "r", "i", "g", "h", "t", "\"", " ", "%", "}">>

\* C11: a map block becomes an include string whose attributes are the
\* tag-line attributes (basemaps as basemap), then markers="..." with one
\* token per continuation line that has a marker key (qid or the empty
\* string, with ~<layer> if the line has a layer), then geojson="..." built
\* the same way from url and layer, each joined with | in source order and
\* present only if its list is not empty, then class="right".
MapTokensEmitted ==
    pc = "converted" =>
        /\ ~ret.raised
        /\ IsInclude("map", ret.md)
        /\ \A em \in {Emitted("map", ret.md)}, attrs \in {DirectiveAttrs(arg)} :
              \A n \in {Cardinality(ShorthandKeys(attrs))} :
                  /\ n <= Len(em)
                  /\ SubSeq(em, n + 1, Len(em))
                       = CanonicalFrom("map", attrs, 1)
                         \o JoinedPair(<<"m", "a", "r", "k", "e", "r", "s">>, DocumentedTokens(arg.sublines, <<"m", "a", "r", "k", "e", "r">>, <<"q", "i", "d">>))
                         \o JoinedPair(<<"g", "e", "o", "j", "s", "o", "n">>, DocumentedTokens(arg.sublines, <<"g", "e", "o", "j", "s", "o", "n">>, <<"u", "r", "l">>))
        /\ arg = ExampleMap => ret.md = ExampleMapInclude

\* a continuation line "marker qid" with qid as a bare key: the TypeError of
\* line 228 leaves convert_map_block, no include string is produced
MapBareQidRaises ==
    /\ pc = "converted"
    /\ arg = [kind |-> "map", tokens |-> <<>>, sublines |-> <<<<TokMarker, TokQidBare>>>>]
    /\ ret.raised

\* the document has a leading front-matter block: after an optional
\* byte-order mark a line of three dashes, and further down a line of three
\* dashes that closes it
RestOfLineBlank(s, i) ==
    \E e \in i..(Len(s) + 1) :
        /\ \A k \in i..(e - 1) : s[k] \in {" ", "\t"}
        /\ e = Len(s) + 1 \/ s[e] = NL
OpensFrontMatter(s, b) ==
    /\ StartsAt(s, b, <<"-", "-", "-">>)
    /\ \E e \in (b + 3)..Len(s) :
          /\ \A k \in (b + 3)..(e - 1) : s[k] \in {" ", "\t"}
          /\ s[e] = NL
          /\ \E p \in (e + 1)..Len(s) :
                StartsAt(s, p, <<NL, "-", "-", "-">>) /\ RestOfLineBlank(s, p + 4)
HasFrontMatter(s) ==
    OpensFrontMatter(s, IF s # <<>> /\ s[1] = BOM THEN 2 ELSE 1)

\* C12: for a document with no leading front-matter block,
\* split_front_matter returns an empty mapping and the original text, and
\* the serialized mapping followed by the returned body is the original
\* document.
SplitSerializeIdentity ==
    (pc = "serialized" /\ ~HasFrontMatter(arg)) =>
        /\ ret.fm = <<>>
        /\ ret.body = arg
        /\ ret2 \o ret.body = arg

\* a document without front matter: the split returns it whole with an empty
\* mapping, whose serialization is the text "{}" and a line end
SplitSerializePrefixed ==
    /\ pc = "serialized"
    /\ arg = <<"x">>
    /\ ret.fm = <<>> /\ ret.body = arg
    /\ ret2 = <<"{", "}", "\n">>

\* C13: in a batch run with a positive max the number of documents written
\* never exceeds max; the counter advances only when a document has been
\* converted and written, so a document abandoned after a conversion error
\* does not count; and the run stops right after the max-th write, not
\* before it.
BatchMaxRespected ==
    /\ ctr = 0 /\ written = <<>>
    /\ [][max > 0 =>
            /\ Len(written') <= max
            /\ ctr' = Len(written')
            /\ ctr' # ctr =>
                   /\ ctr' = ctr + 1
                   /\ Convertible(walk[pos])
                   /\ written' = Append(written, [path |-> convert_entry(walk[pos], <<>>, <<>>).path,
                                                 content |-> convert_entry(walk[pos], <<>>, <<>>).content])
            /\ errors' # errors => (ctr' = ctr /\ written' = written)
            /\ (pc' = "break") = (ctr' # ctr /\ ctr' = max)
            /\ pc = "break" => (pc' = "done" /\ written' = written /\ pos' = pos)
       ]_vars

\* max = 1: the first document is abandoned after a conversion error, the
\* second is the first one written, and the run stops with the third
\* document of the walk never processed
BatchStoppedAtMax ==
    /\ pc = "done"
    /\ max = 1
    /\ walk = <<EntryMapRaises, EntryGood, EntryFrontMatter>>
    /\ pos = 3
    /\ errors = 1 /\ ctr = 1 /\ Len(written) = 1

\* the calls of fn among the events, in order
Calls(events) == SelectSeq(events, LAMBDA e : e[1] = "fn")
Sleeps(events) == SelectSeq(events, LAMBDA e : e[1] = "sleep")

\* C14: with_retries calls fn at most max_retries times and stops at the
\* first call that succeeds, returning its result; if all max_retries calls
\* fail it raises the error of the last one; it sleeps only between
\* attempts: once after each failed call except the last, never after a
\* success and never after the final failure.
RetryDiscipline ==
    \A ev \in {ret2.events} :
        \A calls \in {Calls(ev)} :
            \* at most max_retries calls, numbered in order
            /\ Len(calls) <= arg.max_retries
            /\ \A k \in 1..Len(calls) : calls[k][2] = k
            \* calls and sleeps alternate, a call first: each sleep follows
            \* a failed call and is followed by the next call
            /\ \A i \in 1..Len(ev) :
                  /\ ev[i][1] = (IF i % 2 = 1 THEN "fn" ELSE "sleep")
                  /\ ev[i][1] = "sleep" => ev[i - 1][3] = "raised"
            \* only the last call can have succeeded
            /\ \A k \in 1..(Len(calls) - 1) : calls[k][3] = "raised"
            \* a success ends the call at once with its result
            /\ (calls # <<>> /\ calls[Len(calls)][3] = "returned") =>
                  /\ pc = "returned"
                  /\ ev[Len(ev)][1] = "fn"
                  /\ ret = [kind |-> "returned", value |-> <<"result", Len(calls)>>]
            /\ pc = "returned" => (calls # <<>> /\ calls[Len(calls)][3] = "returned")
            \* max_retries failed calls end it with the error of the last
            /\ (Len(calls) = arg.max_retries /\ calls[Len(calls)][3] = "raised") =>
                  /\ pc = "raised"
                  /\ ev[Len(ev)][1] = "fn"
                  /\ ret.kind = "raised"
                  /\ ret.value[2] = arg.max_retries
            /\ pc = "raised" =>
                  /\ ev[Len(ev)] = <<"fn", Len(calls), "raised">>
                  /\ ret.value[2] = Len(calls)
                  /\ Len(Sleeps(ev)) = Len(calls) - 1
            \* while it runs there is one sleep for each failed call, the
            \* one being slept through included
            /\ pc = "try" => Len(Sleeps(ev)) = Len(calls)
            /\ pc = "sleep" => Len(Sleeps(ev)) = Len(calls) - 1

\* three attempts: two failures, each followed by one sleep, then a third
\* failure that is raised without a sleep
RetryExhausted ==
    /\ pc = "raised"
    /\ arg.max_retries = 3
    /\ ret = [kind |-> "raised", value |-> <<"Exception", 3>>]
    /\ Len(ret2.events) = 5
    /\ ret2.events[2][1] = "sleep" /\ ret2.events[4][1] = "sleep"

====
